---- MODULE Spec2Model ----
(***************************************************************************)
(* A model of pyrae's parsing engine (src/pyrae/core.py): the FromHTML     *)
(* parse-once lifecycle, the Abbr and Word leaves, and the grouping scan   *)
(* of Article._parse_html.                                                 *)
(*                                                                         *)
(* Strings are sequences of tokens (<<"/", "r">> is "/r"); a token is      *)
(* atomic, and " " is the whitespace token.  An attribute that may be      *)
(* absent is a sequence of length at most one: <<>> when the element does  *)
(* not carry it, <<v>> when its value is v.                                *)
(***************************************************************************)
EXTENDS Integers, Sequences, FiniteSets, TLC

VARIABLES
    input,                \* leaf functions: the arguments of the constructor call
    output,               \* leaf functions: what the call produced
    obj,                  \* lifecycle: the live instance
    last,                 \* lifecycle: the outcome of the last operation on obj
    nodes,                \* Article scan: matching_descendants
    index,                \* Article scan: number of nodes already visited
    lema_entry_tag,       \* Article scan: children appended to the lemma group
    tags,                 \* Article scan: every complex_form_entry Tag created
    complex_form_tag,     \* Article scan: the current group (0 is None)
    complex_forms_tags,   \* Article scan: the groups that will be parsed
    other_entries,        \* Article scan: self._other_entries
    pc                    \* Article scan: position in Article._parse_html

leafVars == <<input, output>>
lifeVars == <<obj, last>>
scanVars == <<nodes, index, lema_entry_tag, tags, complex_form_tag,
              complex_forms_tags, other_entries, pc>>
vars == <<input, output, obj, last, nodes, index, lema_entry_tag, tags,
          complex_form_tag, complex_forms_tags, other_entries, pc>>

(***************************************************************************)
(* Bounds of the model.                                                    *)
(***************************************************************************)
MaxKids == 2

MaxNodes == 3

(***************************************************************************)
(* The DOM.  A node is an element or a text node ("#text").                *)
(***************************************************************************)
NoAttr == <<>>

Attr(v) == <<v>>

Has(a) == a # <<>>

Val(a) == a[1]

TextNode(s) ==
    [name |-> "#text", id |-> NoAttr, cls |-> NoAttr, title |-> NoAttr,
     dataid |-> NoAttr, href |-> NoAttr, text |-> s, kids |-> <<>>]

Elem(nm, c, t, d, h, ks) ==
    [name |-> nm, id |-> NoAttr, cls |-> c, title |-> t, dataid |-> d, href |-> h,
     text |-> <<>>, kids |-> ks]

\* An element that carries only a class (one token) and children.
Classed(nm, c, ks) == Elem(nm, Attr(<<c>>), NoAttr, NoAttr, NoAttr, ks)

Plain(nm, ks) == Elem(nm, NoAttr, NoAttr, NoAttr, NoAttr, ks)

WithId(e, v) == [e EXCEPT !.id = v]

\* tag.get('class', [])
ClassesOf(tag) == IF Has(tag.cls) THEN {Val(tag.cls)[i] : i \in 1..Len(Val(tag.cls))} ELSE {}

RECURSIVE TextOfAll(_)
TextOf(n) == IF n.name = "#text" THEN n.text ELSE TextOfAll(n.kids)

TextOfAll(ns) == IF ns = <<>> THEN <<>> ELSE TextOf(Head(ns)) \o TextOfAll(Tail(ns))

\* soup.<name>: the first element of that name, in document order.
RECURSIVE FindFirst(_, _)
FindFirst(ns, nm) ==
    IF ns = <<>> THEN <<>>
    ELSE LET h == Head(ns)
         IN  IF h.name = nm THEN <<h>>
             ELSE LET inner == FindFirst(h.kids, nm)
                  IN  IF inner # <<>> THEN inner ELSE FindFirst(Tail(ns), nm)

\* for sup_tag in soup.find_all("sup"): sup_tag.decompose()
RECURSIVE Decompose(_, _)
Decompose(ns, nm) ==
    IF ns = <<>> THEN <<>>
    ELSE LET h == Head(ns)
         IN  IF h.name = nm THEN Decompose(Tail(ns), nm)
             ELSE <<[h EXCEPT !.kids = Decompose(h.kids, nm)]>> \o Decompose(Tail(ns), nm)

IsSpace(t) == t = " "

RECURSIVE LStrip(_)
LStrip(s) == IF s # <<>> /\ IsSpace(Head(s)) THEN LStrip(Tail(s)) ELSE s

RECURSIVE RStrip(_)
RStrip(s) ==
    IF s # <<>> /\ IsSpace(s[Len(s)]) THEN RStrip(SubSeq(s, 1, Len(s) - 1)) ELSE s

Strip(s) == RStrip(LStrip(s))

StartsWith(s, t) == s # <<>> /\ Head(s) = t

Lower(t) == IF t = "U" THEN "u" ELSE t

(***************************************************************************)
(* An HTML string: empty, or text in which the pattern <[^>]*> occurs      *)
(* (tagged) or not; top is what the parser makes of it.                    *)
(***************************************************************************)
Html(e, tg, tp) == [empty |-> e, tagged |-> tg, top |-> tp]

EmptyHtml == Html(TRUE, FALSE, <<>>)

PlainHtml == Html(FALSE, FALSE, <<TextNode(<<"w">>)>>)

AngleHtml == Html(FALSE, TRUE, <<TextNode(<<"1", "<", "2", ">", "1">>)>>)

Markup(root) == Html(FALSE, TRUE, <<root>>)

(***************************************************************************)
(* Outcomes: a call returns normally or raises; either way it leaves the   *)
(* instance in the state self.  Bind runs the rest of a method on the      *)
(* instance a step left behind, unless the step raised.                    *)
(***************************************************************************)
Ok(s) == [ok |-> TRUE, err |-> "", self |-> s]

Raise(kind, s) == [ok |-> FALSE, err |-> kind, self |-> s]

Bind(r, Rest(_)) == IF r.ok THEN Rest(r.self) ELSE r

ErrorKinds ==
    {"Exception", "KeyError", "IndexError", "AttributeError", "TypeError", "AssertionError"}

\* What a call hands back: a value (None is <<>>) or an exception.
Returned(v) == [state |-> "returned", err |-> "", value |-> v]

Raised(kind) == [state |-> "raised", err |-> kind, value |-> <<>>]

Pending == [state |-> "pending", err |-> "", value |-> <<>>]

AsCall(r) == IF r.ok THEN Returned(<<r.self>>) ELSE Raised(r.err)

\* An except clause that catches only what the parsers raise themselves.
CaughtOnlyWhenRaisedByHand(kind) == kind = "Exception"

\* except Exception: every kind the parsers raise derives from Exception.
CaughtByExceptException(kind) == kind \in ErrorKinds

\* try: return cls(html=html) / except Exception: return None
Catch(r) ==
    IF r.state = "raised" /\ CaughtByExceptException(r.err) THEN Returned(<<>>) ELSE r

(***************************************************************************)
(* FromHTML                                                                *)
(***************************************************************************)
FromHTML_parse_html(self) ==
    IF self.html.empty THEN Raise("Exception", self)
    ELSE IF ~self.html.tagged THEN Raise("Exception", self)
    ELSE Ok([self EXCEPT !.soup = <<self.html.top>>])

(***************************************************************************)
(* Abbr                                                                    *)
(***************************************************************************)
Abbr_reset(self) == [self EXCEPT !.abbr = <<>>, !.class_ = "", !.text = <<>>]

\* if self._soup.abbr.has_attr('class'): self._class = self._soup.abbr['class'][0]
Abbr_class(self, tag) ==
    IF ~Has(tag.cls) THEN Ok(self)
    ELSE IF Val(tag.cls) = <<>> THEN Raise("IndexError", self)
    ELSE Ok([self EXCEPT !.class_ = Val(tag.cls)[1]])

Abbr_title(self, tag) ==
    IF ~Has(tag.title) THEN Raise("Exception", self)
    ELSE Ok([self EXCEPT !.text = Val(tag.title), !.parsed = TRUE])

Abbr_fields(self, tag) ==
    Bind(Abbr_class([self EXCEPT !.abbr = TextOf(tag)], tag),
         LAMBDA s : Abbr_title(s, tag))

Abbr_classify(self) ==
    IF ~Has(FindFirst(self.soup[1], "abbr")) THEN Raise("Exception", self)
    ELSE Abbr_fields(self, Val(FindFirst(self.soup[1], "abbr")))

\* A parse that classifies without resetting first.
Abbr_parse_html_without_reset(self) ==
    Bind(FromHTML_parse_html(self),
         LAMBDA s : IF s.parsed THEN Ok(s) ELSE Abbr_classify(s))

Abbr_parse_html(self) ==
    Bind(FromHTML_parse_html(self),
         LAMBDA s : IF s.parsed THEN Ok(s) ELSE Abbr_classify(Abbr_reset(s)))

\* Abbr(html=html): the attributes an instance has before its first _reset
\* are never read.
NewAbbr ==
    [cls |-> "Abbr", html |-> EmptyHtml, parsed |-> FALSE, soup |-> <<>>,
     abbr |-> <<>>, class_ |-> "", text |-> <<>>]

Abbr_init(html) == Abbr_parse_html([NewAbbr EXCEPT !.html = html])

(***************************************************************************)
(* Word                                                                    *)
(***************************************************************************)
Word_reset(self) ==
    [self EXCEPT !.text = <<>>, !.href = <<>>, !.is_active_link = FALSE]

Word_mark(self, tag) ==
    IF ~Has(tag.dataid) THEN Raise("KeyError", self)
    ELSE Ok([self EXCEPT !.href = <<"/", "?id=">> \o Val(tag.dataid),
                         !.text = TextOf(tag),
                         !.parsed = TRUE])

\* A Word_href that forgets the parent context.
Word_href_without_parent(href, parent_href) ==
    IF href # <<>> /\ ~StartsWith(href, "/") THEN <<"/">> \o href ELSE href

Word_href(href, parent_href) ==
    IF href # <<>> /\ ~StartsWith(href, "/") THEN <<"/">> \o parent_href \o href ELSE href

Word_a(self, tag) ==
    IF ~Has(tag.href) THEN Raise("KeyError", [self EXCEPT !.text = Strip(TextOf(tag))])
    ELSE Ok([self EXCEPT !.text = Strip(TextOf(tag)),
                         !.href = Word_href(Val(tag.href), self.parent_href),
                         !.is_active_link = TRUE,
                         !.parsed = TRUE])

Word_span(self, tag) ==
    IF ~Has(tag.cls) THEN Raise("KeyError", self)
    ELSE IF Val(tag.cls) = <<>> THEN Raise("IndexError", self)
    ELSE IF Lower(Val(tag.cls)[1]) = "u" \/ Has(tag.dataid)
         THEN Ok([self EXCEPT !.text = TextOf(tag), !.parsed = TRUE])
         ELSE Raise("Exception", self)

\* A chain of shapes that tries the anchor before the mark.
Word_shapes_anchor_first(self) ==
    IF Has(FindFirst(self.soup[1], "a"))
        THEN Word_a(self, Val(FindFirst(self.soup[1], "a")))
    ELSE IF Has(FindFirst(self.soup[1], "mark"))
        THEN Word_mark(self, Val(FindFirst(self.soup[1], "mark")))
    ELSE IF Has(FindFirst(self.soup[1], "span"))
        THEN Word_span(self, Val(FindFirst(self.soup[1], "span")))
    ELSE Raise("Exception", self)

\* if self._soup.mark: ... elif self._soup.a: ... elif self._soup.span and ...
Word_shapes(self) ==
    IF Has(FindFirst(self.soup[1], "mark"))
        THEN Word_mark(self, Val(FindFirst(self.soup[1], "mark")))
    ELSE IF Has(FindFirst(self.soup[1], "a"))
        THEN Word_a(self, Val(FindFirst(self.soup[1], "a")))
    ELSE IF Has(FindFirst(self.soup[1], "span"))
        THEN Word_span(self, Val(FindFirst(self.soup[1], "span")))
    ELSE Raise("Exception", self)

\* The superscripts are taken out of the soup, then the shapes are tried.
Word_classify(self) ==
    Word_shapes([self EXCEPT !.soup = <<Decompose(self.soup[1], "sup")>>])

Word_parse_html(self) ==
    Bind(FromHTML_parse_html(self),
         LAMBDA s : IF s.parsed THEN Ok(s) ELSE Word_classify(Word_reset(s)))

\* Word(html=html, parent_href=parent_href)
NewWord(parent_href) ==
    [cls |-> "Word", html |-> EmptyHtml, parsed |-> FALSE, soup |-> <<>>,
     parent_href |-> parent_href,
     text |-> <<>>, href |-> <<>>, is_active_link |-> FALSE]

Word_init(html, parent_href) == Word_parse_html([NewWord(parent_href) EXCEPT !.html = html])

(***************************************************************************)
(* Sentence.  A component is an Abbr, a Word or a plain string.            *)
(***************************************************************************)
\* str(tag): the text of a string, the markup of an element (attributes
\* are left out, they stand inside the opening tag).
RECURSIVE StrOfAll(_)
StrOf(n) ==
    IF n.name = "#text" THEN n.text
    ELSE <<"<tag>">> \o StrOfAll(n.kids) \o <<"</tag>">>

StrOfAll(ns) == IF ns = <<>> THEN <<>> ELSE StrOf(Head(ns)) \o StrOfAll(Tail(ns))

\* str(tag) as the html argument of a constructor
ChildHtml(tag) ==
    IF tag.name = "#text" THEN Html(FALSE, FALSE, <<tag>>) ELSE Markup(tag)

unwanted_abbreviations ==
    {"And.", "Arg.", "Col.", "C. Rica", "Cuba.", "Ec.", "El Salv.", "Guat.",
     "Hond.", "León.", "Mat.", "Méx.", "Mur.", "Nav.", "Nic.", "Pan.", "Par.",
     "Perú", "P. Rico.", "R. Dom.", "Ur.", "Ven.", "TV.", "Zool.", "Arq.",
     "Constr.", "Fotogr.", "Geol.", "Ling.", "Métr.", "Pint.", "Psiquiatr.",
     "Teatro.", "1.", "2.", "3.", "4.", "Med."}

\* str.endswith on the last word of a string: the word itself, or a longer
\* word with that ending ("21." ends with "1.").
EndsWith(word, ua) == word = ua \/ (word = "21." /\ ua = "1.")

\* A deny check that looks at nothing.
NeverDenied(tag) == FALSE

\* str(tag).strip().endswith(ua) for some ua
Denied(tag) ==
    /\ Strip(StrOf(tag)) # <<>>
    /\ \E ua \in unwanted_abbreviations :
           EndsWith(Strip(StrOf(tag))[Len(Strip(StrOf(tag)))], ua)

PlainText(t) == [cls |-> "str", text |-> t]

Sentence_reset(self) == [self EXCEPT !.components = <<>>]

\* The checks that skip a child before anything is tried on it.
Sentence_skips(self, tag) ==
    \/ tag.name \in self.ignore_tags
    \/ /\ tag.name = "span" /\ ~Has(tag.dataid)
       /\ Has(tag.cls)
       /\ ClassesOf(tag) \cap {"af", "u"} = {}

\* Neither an Abbr nor a Word: the deny-list, then the text.
Sentence_plain(self, tag) ==
    IF Denied(tag) THEN Ok(self)
    ELSE Ok([self EXCEPT !.components = Append(@, PlainText(TextOf(tag)))])

\* word = Word.from_html(html=str(tag))
Sentence_word(self, tag, word) ==
    IF word.state = "raised" THEN Raise(word.err, self)
    ELSE IF word.value # <<>>
         THEN Ok([self EXCEPT !.components = Append(@, word.value[1])])
    ELSE Sentence_plain(self, tag)

\* abbr = Abbr.from_html(html=str(tag))
Sentence_abbr(self, tag, abbr) ==
    IF abbr.state = "raised" THEN Raise(abbr.err, self)
    ELSE IF abbr.value # <<>>
         THEN Ok([self EXCEPT !.components = Append(@, abbr.value[1])])
    ELSE Sentence_word(self, tag, Catch(AsCall(Word_init(ChildHtml(tag), <<>>))))

\* One turn of the loop over the children of the root.
Sentence_child(self, tag) ==
    IF Sentence_skips(self, tag) THEN Ok(self)
    ELSE Sentence_abbr(self, tag, Catch(AsCall(Abbr_init(ChildHtml(tag)))))

RECURSIVE Sentence_children(_, _)
Sentence_children(self, children) ==
    IF children = <<>> THEN Ok(self)
    ELSE Bind(Sentence_child(self, Head(children)),
              LAMBDA s : Sentence_children(s, Tail(children)))

\* self._soup.contents[0].children: a string has no children
Sentence_classify(self) ==
    IF self.soup[1][1].name = "#text" THEN Raise("AttributeError", self)
    ELSE Bind(Sentence_children(self, self.soup[1][1].kids),
              LAMBDA s : Ok([s EXCEPT !.parsed = TRUE]))

Sentence_parse_html(self) ==
    Bind(FromHTML_parse_html(self),
         LAMBDA s : IF s.parsed THEN Ok(s) ELSE Sentence_classify(Sentence_reset(s)))

NewSentence(ignore_tags) ==
    [cls |-> "Sentence", html |-> EmptyHtml, parsed |-> FALSE, soup |-> <<>>,
     ignore_tags |-> ignore_tags, components |-> <<>>]

Sentence_init(html, ignore_tags) ==
    Sentence_parse_html([NewSentence(ignore_tags) EXCEPT !.html = html])

\* str(component)
Component_str(c) ==
    IF c.cls = "Abbr" THEN c.abbr \o <<" ", "(">> \o c.text \o <<")">>
    ELSE c.text

RECURSIVE Components_str(_)
Components_str(cs) ==
    IF cs = <<>> THEN <<>> ELSE Component_str(Head(cs)) \o Components_str(Tail(cs))

\* Sentence.text
Sentence_text(self) == Strip(Components_str(self.components))

(***************************************************************************)
(* Definition: the flat scan (index, examples, category, usage             *)
(* abbreviations) and whether the walk over the item container returns.    *)
(***************************************************************************)
RECURSIVE FindAllClass(_, _)
FindAllClass(ns, classes) ==
    IF ns = <<>> THEN <<>>
    ELSE (IF ClassesOf(Head(ns)) \cap classes # {} THEN <<Head(ns)>> ELSE <<>>)
         \o FindAllClass(Head(ns).kids, classes) \o FindAllClass(Tail(ns), classes)

\* soup.find_all([...]): the elements with one of the names, in document order
RECURSIVE FindAllNamed(_, _)
FindAllNamed(ns, names) ==
    IF ns = <<>> THEN <<>>
    ELSE (IF Head(ns).name \in names THEN <<Head(ns)>> ELSE <<>>)
         \o FindAllNamed(Head(ns).kids, names) \o FindAllNamed(Tail(ns), names)

\* tag['class'][0].lower() if tag.has_attr('class') else ''
FirstClassLower(tag) == IF Has(tag.cls) THEN Lower(Val(tag.cls)[1]) ELSE ""

Digits == {"0", "1", "2", "3", "4", "5", "6", "7", "8", "9"}

DigitValue(d) ==
    CASE d = "0" -> 0 [] d = "1" -> 1 [] d = "2" -> 2 [] d = "3" -> 3 [] d = "4" -> 4
      [] d = "5" -> 5 [] d = "6" -> 6 [] d = "7" -> 7 [] d = "8" -> 8 [] d = "9" -> 9

\* int(match['index'])
RECURSIVE ToInt(_)
ToInt(ds) ==
    IF ds = <<>> THEN 0 ELSE 10 * ToInt(SubSeq(ds, 1, Len(ds) - 1)) + DigitValue(ds[Len(ds)])

RECURSIVE LeadingDigits(_)
LeadingDigits(text) ==
    IF text # <<>> /\ Head(text) \in Digits THEN 1 + LeadingDigits(Tail(text)) ELSE 0

\* ^(?P<index>\d+).\D*$ with the group taking the first k characters: one
\* more character that is not a line break, then no digit up to the end.
\* The text of a span.n_acep is given character by character.
index_re_fits(text, k) ==
    /\ k + 1 <= Len(text)
    /\ text[k + 1] # "\n"
    /\ \A j \in (k + 2)..Len(text) : text[j] \notin Digits

\* __index_re.match(string=tag.text): the group, the longest that fits
index_re_match(text) ==
    IF \E k \in 1..LeadingDigits(text) : index_re_fits(text, k)
    THEN <<SubSeq(text, 1,
                  CHOOSE k \in 1..LeadingDigits(text) :
                      /\ index_re_fits(text, k)
                      /\ \A m \in (k + 1)..LeadingDigits(text) : ~index_re_fits(text, m))>>
    ELSE <<>>

\* if match: self._index = int(match['index'])
Definition_index(self, match) ==
    IF match = <<>> THEN Ok(self) ELSE Ok([self EXCEPT !.index = ToInt(match[1])])

\* self._examples.append(Sentence(html=str(tag)))
Definition_example(self, s) ==
    IF ~s.ok THEN Raise(s.err, self)
    ELSE Ok([self EXCEPT !.examples = Append(@, s.self)])

Definition_span(self, tag) ==
    IF FirstClassLower(tag) = "n_acep"
        THEN Definition_index(self, index_re_match(TextOf(tag)))
    ELSE IF FirstClassLower(tag) = "h"
        THEN Definition_example(self, Sentence_init(Markup(tag), {}))
    ELSE Ok(self)

\* A later abbr that is not recorded as a usage abbreviation.
Definition_skips(tag) ==
    \/ TextOf(tag) \in {<<"Sin.:">>, <<"Ant.:">>}
    \/ (Has(tag.title) /\ Val(tag.title) = <<"Ámbito del sentido">>)
    \/ Strip(TextOf(tag)) \in {<<>>, <<"etc.">>, <<"etc.,">>}

\* self._category = Abbr(html=str(tag)); self._first_of_category = ...
Definition_category(self, tag, a) ==
    IF ~a.ok THEN Raise(a.err, self)
    ELSE Ok([self EXCEPT !.category = <<a.self>>,
                         !.first_of_category = (FirstClassLower(tag) = "d")])

\* self._abbreviations.append(Abbr(html=str(tag)))
Definition_abbreviation(self, a) ==
    IF ~a.ok THEN Raise(a.err, self)
    ELSE Ok([self EXCEPT !.abbreviations = Append(@, a.self)])

\* One turn of the flat scan over the span and abbr descendants.
Definition_visit(self, tag) ==
    IF Has(tag.cls) /\ Val(tag.cls) = <<>> THEN Raise("IndexError", self)
    ELSE IF tag.name # "abbr" THEN Definition_span(self, tag)
    ELSE IF self.category = <<>>
         THEN Definition_category(self, tag, Abbr_init(Markup(tag)))
    ELSE IF Definition_skips(tag) THEN Ok(self)
    ELSE Definition_abbreviation(self, Abbr_init(Markup(tag)))

RECURSIVE Definition_scan(_, _)
Definition_scan(self, found) ==
    IF found = <<>> THEN Ok(self)
    ELSE Bind(Definition_visit(self, Head(found)),
              LAMBDA s : Definition_scan(s, Tail(found)))

\* a_or_s.descendants with name None: the strings below a tag, in order
RECURSIVE Strings(_)
Strings(ns) ==
    IF ns = <<>> THEN <<>>
    ELSE (IF Head(ns).name = "#text" THEN <<Head(ns).text>> ELSE Strings(Head(ns).kids))
         \o Strings(Tail(ns))

\* .replace('.', '').replace(',', '').strip(), then every digit removed
CleanWord(text) ==
    SelectSeq(Strip(SelectSeq(text, LAMBDA t : t \notin {".", ","})),
              LAMBDA t : t \notin Digits)

RECURSIVE CleanWords(_)
CleanWords(texts) ==
    IF texts = <<>> THEN <<>>
    ELSE (IF CleanWord(Head(texts)) # <<>> THEN <<CleanWord(Head(texts))>> ELSE <<>>)
         \o CleanWords(Tail(texts))

\* for italicized_text in elem2.contents: raw_sentence += " " + text
RawOfItalic(contents) ==
    [k \in 1..Len(contents) |-> TextNode(<<" ">> \o TextOf(contents[k]))]

\* The strings of an anchor and the text of its i children.
RawOfAnchor(contents) ==
    TextOfAll(SelectSeq(contents, LAMBDA c : c.name \in {"#text", "i"}))

\* What one child of a classless block adds to raw_sentence, as the nodes
\* the text added parses to.
Definition_raw(elem2) ==
    IF elem2.name = "#text" THEN <<elem2>>
    ELSE IF elem2.name = "i" THEN RawOfItalic(elem2.kids)
    ELSE IF elem2.name = "a"
        THEN (IF RawOfAnchor(elem2.kids) = <<>> THEN <<>>
              ELSE <<TextNode(RawOfAnchor(elem2.kids))>>)
    ELSE IF elem2.name = "span"
        THEN (IF "h" \in ClassesOf(elem2) THEN <<>> ELSE <<elem2>>)
    ELSE IF elem2.name = "abbr" /\ ClassesOf(elem2) \cap {"d", "g", "c"} # {}
        THEN <<TextNode(<<" ">>), elem2>>
    ELSE <<>>

RECURSIVE Definition_raws(_)
Definition_raws(elems) ==
    IF elems = <<>> THEN <<>>
    ELSE Definition_raw(Head(elems)) \o Definition_raws(Tail(elems))

\* Text added piece by piece parses to one string.
RECURSIVE MergeText(_)
MergeText(ns) ==
    IF Len(ns) < 2 THEN ns
    ELSE IF ns[1].name = "#text" /\ ns[2].name = "#text"
        THEN MergeText(<<TextNode(ns[1].text \o ns[2].text)>> \o SubSeq(ns, 3, Len(ns)))
    ELSE <<ns[1]>> \o MergeText(Tail(ns))

\* The locals of the walk: raw_sentence (from "<div> " on),
\* ant_or_syn_word_type, synonym_lists, antonym_lists.
WalkStart(self) ==
    [d |-> self, raw |-> <<TextNode(<<" ">>)>>, type |-> <<>>, synonym_lists |-> <<>>,
     antonym_lists |-> <<>>]

\* One child of a c-word-list: the div names the kind, anything else is a
\* list of words; a string has no descendants.
Definition_word_list_child(w, e) ==
    IF e.name = "div"
        THEN Ok([w EXCEPT !.type = SelectSeq(TextOf(e), LAMBDA t : t # ":")])
    ELSE IF e.name = "#text" THEN Raise("AttributeError", w)
    ELSE IF w.type = <<"Sin.">>
        THEN Ok([w EXCEPT !.synonym_lists = Append(@, CleanWords(Strings(e.kids)))])
    ELSE IF w.type = <<"Ant.">>
        THEN Ok([w EXCEPT !.antonym_lists = Append(@, CleanWords(Strings(e.kids)))])
    ELSE Ok(w)

RECURSIVE Definition_word_list(_, _)
Definition_word_list(w, es) ==
    IF es = <<>> THEN Ok(w)
    ELSE Bind(Definition_word_list_child(w, Head(es)),
              LAMBDA v : Definition_word_list(v, Tail(es)))

\* One child of the footer; a string has no has_attr.
Definition_footer_child(w, e) ==
    IF e.name = "#text" THEN Raise("AttributeError", w)
    ELSE IF "c-word-list" \in ClassesOf(e) THEN Definition_word_list(w, e.kids)
    ELSE Ok(w)

RECURSIVE Definition_footer(_, _)
Definition_footer(w, es) ==
    IF es = <<>> THEN Ok(w)
    ELSE Bind(Definition_footer_child(w, Head(es)),
              LAMBDA v : Definition_footer(v, Tail(es)))

\* One child of the item container; a string has no has_attr.  A child
\* without a class adds to the raw sentence.
Definition_item_child(w, elem) ==
    IF elem.name = "#text" THEN Raise("AttributeError", w)
    ELSE IF "c-definitions__item-footer" \in ClassesOf(elem) THEN Definition_footer(w, elem.kids)
    ELSE IF ~Has(elem.cls) THEN Ok([w EXCEPT !.raw = @ \o Definition_raws(elem.kids)])
    ELSE Ok(w)

RECURSIVE Definition_item(_, _)
Definition_item(w, elems) ==
    IF elems = <<>> THEN Ok(w)
    ELSE Bind(Definition_item_child(w, Head(elems)),
              LAMBDA v : Definition_item(v, Tail(elems)))

\* self._sentence = Sentence(html=raw_sentence, ignore_tags=('abbr',))
Definition_sentence(self, n) ==
    IF ~n.ok THEN Raise(n.err, self)
    ELSE Ok([self EXCEPT !.sentence = <<n.self>>, !.parsed = TRUE])

\* raw_sentence += "</div>"; self._synonyms = ...; self._antonyms = ...
Definition_walked(r) ==
    IF ~r.ok THEN Raise(r.err, r.self.d)
    ELSE Definition_sentence([r.self.d EXCEPT !.synonyms = r.self.synonym_lists,
                                              !.antonyms = r.self.antonym_lists],
                             Sentence_init(Markup(Plain("div", MergeText(r.self.raw))),
                                           {"abbr"}))

\* The walk over the children of the item container; without a container
\* root is None, which has no children.
Definition_walk(self, root) ==
    IF root = <<>> THEN Raise("AttributeError", self)
    ELSE Definition_walked(Definition_item(WalkStart(self), Head(root).kids))

\* self._soup.find('div', class_='c-definitions__item')
ItemContainer(top) ==
    SelectSeq(FindAllClass(top, {"c-definitions__item"}), LAMBDA t : t.name = "div")

Definition_reset(self) ==
    [self EXCEPT !.index = 0, !.category = <<>>, !.first_of_category = FALSE,
                 !.abbreviations = <<>>, !.sentence = <<>>, !.examples = <<>>]

Definition_classify(self) ==
    Bind(Definition_scan(self, FindAllNamed(self.soup[1], {"span", "abbr"})),
         LAMBDA s : Definition_walk(s, ItemContainer(self.soup[1])))

Definition_parse_html(self) ==
    Bind(FromHTML_parse_html(self),
         LAMBDA s : IF s.parsed THEN Ok(s) ELSE Definition_classify(Definition_reset(s)))

NewDefinition ==
    [cls |-> "Definition", html |-> EmptyHtml, parsed |-> FALSE, soup |-> <<>>,
     index |-> 0, category |-> <<>>, first_of_category |-> FALSE,
     abbreviations |-> <<>>, sentence |-> <<>>, examples |-> <<>>, synonyms |-> <<>>,
     antonyms |-> <<>>]

\* Definition(html=str(tag))
Definition_init(tag) == Definition_parse_html([NewDefinition EXCEPT !.html = Markup(tag)])

\* The tokens of the model that contain "verbo", whatever the case.
verbo_tokens == {"verbo", "Verbo", "verbos"}

\* __verb_re.match(text) with ^.*verbo.*$: a dot matches no line break, and
\* the end is the end of the text or the place before a last line break.
verb_re_line(text) ==
    IF text # <<>> /\ text[Len(text)] = "\n" THEN SubSeq(text, 1, Len(text) - 1) ELSE text

verb_re_match(text) ==
    /\ \A k \in 1..Len(verb_re_line(text)) : verb_re_line(text)[k] # "\n"
    /\ \E k \in 1..Len(verb_re_line(text)) : verb_re_line(text)[k] \in verbo_tokens

\* re.search('part.|ger.|pret.|fut.|pres.|infinit.', abbr) on the tokens of
\* the model: the ones in which one of the alternatives occurs.
verb_abbr_tokens == {"part.", "ger.", "pret.", "fut.", "pres.", "infinit."}

verb_abbr_search(abbr) == \E k \in 1..Len(abbr) : abbr[k] \in verb_abbr_tokens

\* self._category.abbr and self._category.text on a category that is None
Definition_is_raises(self) == self.category = <<>>

Definition_is_adverb(self) == self.category[1].abbr = <<"adv.">>

Definition_is_adjective(self) == self.category[1].abbr = <<"adj.">>

Definition_is_interjection(self) == self.category[1].abbr = <<"interj.">>

Definition_is_noun(self) ==
    self.category[1].abbr \in
        {<<"s.">>, <<"sust.">>, <<"m.">>, <<"f.">>, <<"m.", " ", "y", " ", "f.">>}

Definition_is_pronoun(self) == self.category[1].abbr = <<"pron.">>

\* A verb test that looks at the abbreviation only.
Definition_is_verb_by_abbr(self) == verb_abbr_search(self.category[1].abbr)

Definition_is_verb(self) ==
    verb_re_match(self.category[1].text) \/ verb_abbr_search(self.category[1].abbr)

(***************************************************************************)
(* EntryLema, ArticleLema and Entry._process_entry.  A group is the        *)
(* sequence of children of a lema_entry or complex_form_entry Tag.         *)
(***************************************************************************)
\* EntryLema._parse_html on the header it found; ArticleLema._parse_html
\* returns right after it, the parsed flag being set.
EntryLema_of(h, lema_class) ==
    IF lema_class = "ArticleLema"
    THEN [cls |-> "ArticleLema", id |-> IF Has(h.id) THEN Val(h.id) ELSE <<>>,
          lema |-> Strip(TextOf(h)), is_foreign |-> FALSE,
          index |-> 0, female_suffix |-> <<>>]
    ELSE [cls |-> "EntryLema", id |-> IF Has(h.id) THEN Val(h.id) ELSE <<>>,
          lema |-> Strip(TextOf(h)), is_foreign |-> FALSE]

\* self._LEMA_CLASS.from_html(html=str(tag)): None when there is no h1 or h3
EntryLema_from_html(tag, lema_class) ==
    IF Has(FindFirst(<<tag>>, "h1"))
        THEN <<EntryLema_of(Val(FindFirst(<<tag>>, "h1")), lema_class)>>
    ELSE IF Has(FindFirst(<<tag>>, "h3"))
        THEN <<EntryLema_of(Val(FindFirst(<<tag>>, "h3")), lema_class)>>
    ELSE <<>>

\* EntryLema._reset, or ArticleLema._reset when the instance is an
\* ArticleLema: the call self._reset() is dispatched on the class.
EntryLema_reset(self) ==
    IF self.cls = "ArticleLema"
    THEN [self EXCEPT !.id = <<>>, !.is_foreign = FALSE, !.lema = <<>>,
                      !.index = 0, !.female_suffix = <<>>]
    ELSE [self EXCEPT !.id = <<>>, !.is_foreign = FALSE, !.lema = <<>>]

\* The h1, else the h3; tag.has_attr on None when there is neither.
EntryLema_header(self, tag) ==
    IF tag = <<>> THEN Raise("AttributeError", self)
    ELSE Ok([self EXCEPT !.id = IF Has(Val(tag).id) THEN Val(Val(tag).id) ELSE <<>>,
                         !.lema = Strip(TextOf(Val(tag))),
                         !.is_foreign = FALSE,
                         !.parsed = TRUE])

EntryLema_classify(self) ==
    EntryLema_header(self, IF Has(FindFirst(self.soup[1], "h1"))
                           THEN FindFirst(self.soup[1], "h1")
                           ELSE FindFirst(self.soup[1], "h3"))

EntryLema_parse_html(self) ==
    Bind(FromHTML_parse_html(self),
         LAMBDA s : IF s.parsed THEN Ok(s) ELSE EntryLema_classify(EntryLema_reset(s)))

\* lema_re.match with <.*?\>(?P<lema>.*?)<.*?\>: the text opens with a tag
\* and holds another one.
lema_re_match(text) ==
    /\ text # <<>> /\ text[1] = "<"
    /\ \E i, j, k \in 2..Len(text) :
           i < j /\ j < k /\ text[i] = ">" /\ text[j] = "<" /\ text[k] = ">"

\* ArticleLema's own step: the pattern has no group named index, so
\* match['index'] raises on a match.
ArticleLema_step(self) ==
    IF lema_re_match(self.lema) THEN Raise("IndexError", self)
    ELSE Ok([self EXCEPT !.parsed = TRUE])

\* super()._parse_html(); if self._parsed: return; the own step
ArticleLema_parse_html(self) ==
    Bind(EntryLema_parse_html(self),
         LAMBDA s : IF s.parsed THEN Ok(s) ELSE ArticleLema_step(EntryLema_reset(s)))

NewEntryLema ==
    [cls |-> "EntryLema", html |-> EmptyHtml, parsed |-> FALSE, soup |-> <<>>,
     id |-> <<>>, lema |-> <<>>, is_foreign |-> FALSE]

NewArticleLema ==
    [cls |-> "ArticleLema", html |-> EmptyHtml, parsed |-> FALSE, soup |-> <<>>,
     id |-> <<>>, lema |-> <<>>, is_foreign |-> FALSE, index |-> 0, female_suffix |-> <<>>]

\* tag['class'][0].lower()[0] on the class tokens of the model
ClassLetter(tag) ==
    IF ~Has(tag.cls) THEN ""
    ELSE IF Val(tag.cls)[1] \in {"j", "j1", "j2"} THEN "j"
    ELSE IF Val(tag.cls)[1] = "m" THEN "m"
    ELSE IF Val(tag.cls)[1] \in {"n", "n1", "n2", "n3", "n4", "n5"} THEN "n"
    ELSE Val(tag.cls)[1]

Entry_reset(self) ==
    [self EXCEPT !.lema = <<>>, !.supplementary_info = <<>>, !.definitions = <<>>]

\* self._definitions.append(Definition(html=str(tag)))
Entry_definition(self, d) ==
    IF ~d.ok THEN Raise(d.err, self)
    ELSE Ok([self EXCEPT !.definitions = Append(@, d.self)])

\* self._supplementary_info.append(Sentence(html=str(tag)))
Entry_supplementary(self, n) ==
    IF ~n.ok THEN Raise(n.err, self)
    ELSE Ok([self EXCEPT !.supplementary_info = Append(@, n.self)])

\* The classification of a child by tag name and class letter.
Entry_child(self, tag) ==
    IF Has(tag.cls) /\ Val(tag.cls) = <<>> THEN Raise("IndexError", self)
    ELSE IF tag.name = "li" /\ ClassLetter(tag) \in {"j", "m"}
         THEN Entry_definition(self, Definition_init(tag))
    ELSE IF tag.name = "div" /\ ClassLetter(tag) = "n"
         THEN Entry_supplementary(self, Sentence_init(Markup(tag), {}))
    ELSE Ok(self)

\* One turn of the loop of _process_entry.
Entry_visit(self, tag, lema_class) ==
    IF tag.name = "#text" THEN Ok(self)
    ELSE IF self.lema = <<>> /\ EntryLema_from_html(tag, lema_class) # <<>>
         THEN Ok([self EXCEPT !.lema = EntryLema_from_html(tag, lema_class)])
    ELSE Entry_child(self, tag)

RECURSIVE Entry_children(_, _, _)
Entry_children(self, children, lema_class) ==
    IF children = <<>> THEN Ok(self)
    ELSE Bind(Entry_visit(self, Head(children), lema_class),
              LAMBDA s : Entry_children(s, Tail(children), lema_class))

Entry_process_entry(self, children, lema_class) ==
    Bind(Entry_children(self, children, lema_class),
         LAMBDA s : IF s.lema = <<>> THEN Raise("Exception", s) ELSE Ok(s))

NewEntry ==
    [cls |-> "Entry", lema |-> <<>>, supplementary_info |-> <<>>, definitions |-> <<>>]

\* Entry(html=str(complex_form_tag)): Entry._parse_html on a group.
Entry_init(children) == Entry_process_entry(Entry_reset(NewEntry), children, "EntryLema")

\* _process_entry(entry_tag=self._soup.contents[0]): a string has no children
Entry_root(self) ==
    IF self.soup[1][1].name = "#text" THEN Raise("AttributeError", self)
    ELSE Bind(Entry_process_entry(self, self.soup[1][1].kids, "EntryLema"),
              LAMBDA s : Ok([s EXCEPT !.parsed = TRUE]))

Entry_parse_html(self) ==
    Bind(FromHTML_parse_html(self),
         LAMBDA s : IF s.parsed THEN Ok(s) ELSE Entry_root(Entry_reset(s)))

\* Entry(html): the instance before its HTML is set.
EntryOfHtml ==
    [cls |-> "Entry", html |-> EmptyHtml, parsed |-> FALSE, soup |-> <<>>,
     lema |-> <<>>, supplementary_info |-> <<>>, definitions |-> <<>>]

(***************************************************************************)
(* Article._parse_html.  The scan visits matching_descendants in order;    *)
(* its locals are the record loc.  A group holds the positions (in         *)
(* matching_descendants) of the tags appended to it, 0 being the h1 put    *)
(* into the lemma group before the scan.  tags lists every                 *)
(* complex_form_entry Tag created, complex_form_tag is the position in     *)
(* tags of the current one (0 for None), complex_forms_tags the positions  *)
(* of those that are listed for parsing.                                   *)
(***************************************************************************)
MatchedClasses ==
    {"f", "j", "j1", "j2", "k5", "k6", "l", "l2", "l3", "m",
     "n1", "n2", "n3", "n4", "n5"}

\* The branch of the if/elif chain a tag takes.
Branch(tag) ==
    IF tag.name = "div" /\ ClassesOf(tag) \cap {"n1", "n2", "n3", "n4", "n5"} # {}
        THEN "supplementary"
    ELSE IF tag.name = "li" /\ ClassesOf(tag) \cap {"j", "j1", "j2"} # {}
        THEN "definition"
    ELSE IF tag.name = "h3" /\ ClassesOf(tag) \cap {"k5", "k6"} # {}
        THEN "complex_form"
    ELSE IF tag.name = "li" /\ "m" \in ClassesOf(tag)
        THEN "m"
    ELSE IF tag.name = "h3" /\ ClassesOf(tag) \cap {"l", "l2", "l3"} # {}
        THEN "other"
    ELSE "none"

ScanStart ==
    [lema_entry_tag |-> <<0>>, tags |-> <<>>, complex_form_tag |-> 0,
     complex_forms_tags |-> <<>>, other_entries |-> <<>>, err |-> ""]

\* complex_form_tag.append(tag) if there is a current group, else
\* lema_entry_tag.append(tag)
AppendToCurrent(loc, i) ==
    IF loc.complex_form_tag # 0
    THEN [loc EXCEPT !.tags[loc.complex_form_tag] = Append(@, i)]
    ELSE [loc EXCEPT !.lema_entry_tag = Append(@, i)]

\* li.m with no current group: a new Tag becomes the current group; it is
\* not listed and the li is not appended to it.
VisitM(loc, i) ==
    IF loc.complex_form_tag # 0
    THEN [loc EXCEPT !.tags[loc.complex_form_tag] = Append(@, i)]
    ELSE [loc EXCEPT !.tags = Append(@, <<>>),
                     !.complex_form_tag = Len(loc.tags) + 1]

OpenComplexForm(loc, i) ==
    [loc EXCEPT !.tags = Append(@, <<i>>),
                !.complex_form_tag = Len(loc.tags) + 1,
                !.complex_forms_tags = Append(@, Len(loc.tags) + 1)]

\* self._other_entries.append(word)
OtherEntry(loc, w) ==
    IF w.ok THEN [loc EXCEPT !.other_entries = Append(@, w.self)]
    ELSE [loc EXCEPT !.err = w.err]

\* self._other_entries.append(Word(html=str(tag), parent_href=self._id))
VisitOther(loc, tag, id) == OtherEntry(loc, Word_init(Markup(tag), id))

ScanStep(loc, i, tag, id) ==
    CASE Branch(tag) = "supplementary" -> AppendToCurrent(loc, i)
      [] Branch(tag) = "definition"    -> AppendToCurrent(loc, i)
      [] Branch(tag) = "complex_form"  -> OpenComplexForm(loc, i)
      [] Branch(tag) = "m"             -> VisitM(loc, i)
      [] Branch(tag) = "other"         -> VisitOther(loc, tag, id)
      [] Branch(tag) = "none"          -> loc

RECURSIVE Scan(_, _, _, _)
Scan(loc, i, ns, id) ==
    IF i > Len(ns) \/ loc.err # "" THEN loc
    ELSE Scan(ScanStep(loc, i, ns[i], id), i + 1, ns, id)

Article_reset(self) ==
    [Entry_reset(self) EXCEPT !.id = <<>>, !.complex_forms = <<>>,
                              !.other_entries = <<>>, !.conjugations = <<>>]

\* self._soup.article
ArticleTag(self) == FindFirst(self.soup[1], "article")

\* self._soup.article.select("h1.c-page-header__title")
TitleTags(article) ==
    SelectSeq(FindAllClass(article.kids, {"c-page-header__title"}),
              LAMBDA t : t.name = "h1")

\* if self._soup.article.has_attr('id'): self._id = ...; then
\* tag_containing_lema[0]
Article_title(self, article) ==
    IF TitleTags(article) = <<>>
    THEN Raise("IndexError", IF Has(article.id) THEN [self EXCEPT !.id = Val(article.id)]
                             ELSE self)
    ELSE Ok(IF Has(article.id) THEN [self EXCEPT !.id = Val(article.id)] ELSE self)

\* Everything of _parse_html between _reset and the loop.
Article_before_scan(self) ==
    IF ~Has(ArticleTag(self)) THEN Raise("Exception", self)
    ELSE IF ~Has(FindFirst(Val(ArticleTag(self)).kids, "header"))
         THEN Raise("Exception", self)
    ELSE Article_title(self, Val(ArticleTag(self)))

IsTitle(tag) == tag.name = "h1" /\ "c-page-header__title" \in ClassesOf(tag)

RECURSIVE ContainsTitle(_)
ContainsTitle(ns) ==
    ns # <<>> /\ (IsTitle(Head(ns)) \/ ContainsTitle(Head(ns).kids) \/ ContainsTitle(Tail(ns)))

\* ns without the first h1.c-page-header__title: lema_entry_tag.append moves
\* it out of the article.
RECURSIVE WithoutTitle(_)
WithoutTitle(ns) ==
    IF ns = <<>> THEN <<>>
    ELSE IF IsTitle(Head(ns)) THEN Tail(ns)
    ELSE IF ContainsTitle(Head(ns).kids)
         THEN <<[Head(ns) EXCEPT !.kids = WithoutTitle(Head(ns).kids)]>> \o Tail(ns)
    ELSE <<Head(ns)>> \o WithoutTitle(Tail(ns))

\* find_all(class_=[...]) once the h1 has been moved into the lemma group
matching_descendants(article) ==
    FindAllClass(WithoutTitle(article.kids), MatchedClasses)

\* The children of a group, as tags.
GroupTags(group, h1, ns) ==
    [k \in 1..Len(group) |-> IF group[k] = 0 THEN h1 ELSE ns[group[k]]]

\* self._complex_forms.append(Entry(html=str(complex_form_tag)))
Article_complex_form(self, e) ==
    IF ~e.ok THEN Raise(e.err, self)
    ELSE Ok([self EXCEPT !.complex_forms = Append(@, e.self)])

RECURSIVE Article_complex_forms(_, _, _, _, _)
Article_complex_forms(self, listed, loc, h1, ns) ==
    IF listed = <<>> THEN Ok(self)
    ELSE Bind(Article_complex_form(self,
                  Entry_init(GroupTags(loc.tags[Head(listed)], h1, ns))),
              LAMBDA s : Article_complex_forms(s, Tail(listed), loc, h1, ns))

\* What follows the loop: the lemma group and every listed group is parsed.
Article_groups(self, loc, h1, ns) ==
    Bind(Entry_process_entry(self, GroupTags(loc.lema_entry_tag, h1, ns), "ArticleLema"),
         LAMBDA s : Bind(Article_complex_forms(s, loc.complex_forms_tags, loc, h1, ns),
                         LAMBDA t : Ok([t EXCEPT !.parsed = TRUE])))

\* The loop has ended, by exhaustion or by the exception of a Word.
Article_after_scan(self, loc, h1, ns) ==
    IF loc.err # "" THEN Raise(loc.err, [self EXCEPT !.other_entries = loc.other_entries])
    ELSE Article_groups([self EXCEPT !.other_entries = loc.other_entries], loc, h1, ns)

Article_run(self, article) ==
    Article_after_scan(self, Scan(ScanStart, 1, matching_descendants(article), self.id),
                       Head(TitleTags(article)), matching_descendants(article))

Article_classify(self) ==
    Bind(Article_before_scan(self), LAMBDA s : Article_run(s, Val(ArticleTag(s))))

Article_parse_html(self) ==
    Bind(FromHTML_parse_html(self),
         LAMBDA s : IF s.parsed THEN Ok(s) ELSE Article_classify(Article_reset(s)))

\* Article.is_verb
Article_is_verb(self) ==
    \/ self.conjugations # <<>>
    \/ \E k \in 1..Len(self.definitions) : Definition_is_verb(self.definitions[k])

NewArticle ==
    [cls |-> "Article", html |-> EmptyHtml, parsed |-> FALSE, soup |-> <<>>,
     lema |-> <<>>, supplementary_info |-> <<>>, definitions |-> <<>>,
     id |-> <<>>, complex_forms |-> <<>>, other_entries |-> <<>>,
     conjugations |-> <<>>]

(***************************************************************************)
(* Conjugation.  conjugations is a function from the slots that are set,   *)
(* <<mood, tense, person>>, to their text; the three non-personal forms    *)
(* start as the empty text and a person slot is absent until a cell sets   *)
(* it; tenses holds the <<mood, tense>> keys whose dictionary exists.       *)
(* coordinate_map is the chain of comparisons of (table_index,        *)
(* row_index, column_index), branch by branch.                             *)
(***************************************************************************)
coordinate_map ==
    <<0, 1, 0>> :> <<"Formas no personales", "Infinitivo", "">>
    @@ <<0, 1, 1>> :> <<"Formas no personales", "Gerundio", "">>
    @@ <<0, 5, 0>> :> <<"Formas no personales", "Participio", "">>
    @@ <<1, 1, 3>> :> <<"Indicativo", "Presente", "yo">>
    @@ <<1, 1, 4>> :> <<"Indicativo", "Antepresente", "yo">>
    @@ <<1, 2, 2>> :> <<"Indicativo", "Presente", "tú / vos">>
    @@ <<1, 2, 3>> :> <<"Indicativo", "Antepresente", "tú / vos">>
    @@ <<1, 3, 1>> :> <<"Indicativo", "Presente", "usted">>
    @@ <<1, 3, 2>> :> <<"Indicativo", "Antepresente", "usted">>
    @@ <<1, 4, 2>> :> <<"Indicativo", "Presente", "él">>
    @@ <<1, 4, 3>> :> <<"Indicativo", "Antepresente", "él">>
    @@ <<1, 5, 3>> :> <<"Indicativo", "Presente", "nosotros">>
    @@ <<1, 5, 4>> :> <<"Indicativo", "Antepresente", "nosotros">>
    @@ <<1, 6, 2>> :> <<"Indicativo", "Presente", "vosotros">>
    @@ <<1, 6, 3>> :> <<"Indicativo", "Antepresente", "vosotros">>
    @@ <<1, 7, 1>> :> <<"Indicativo", "Presente", "ustedes">>
    @@ <<1, 7, 2>> :> <<"Indicativo", "Antepresente", "ustedes">>
    @@ <<1, 8, 2>> :> <<"Indicativo", "Presente", "ellos">>
    @@ <<1, 8, 3>> :> <<"Indicativo", "Antepresente", "ellos">>
    @@ <<2, 1, 3>> :> <<"Indicativo", "Copretérito", "yo">>
    @@ <<2, 1, 4>> :> <<"Indicativo", "Antecopretérito", "yo">>
    @@ <<2, 2, 2>> :> <<"Indicativo", "Copretérito", "tú / vos">>
    @@ <<2, 2, 3>> :> <<"Indicativo", "Antecopretérito", "tú / vos">>
    @@ <<2, 3, 1>> :> <<"Indicativo", "Copretérito", "usted">>
    @@ <<2, 3, 2>> :> <<"Indicativo", "Antecopretérito", "usted">>
    @@ <<2, 4, 2>> :> <<"Indicativo", "Copretérito", "él">>
    @@ <<2, 4, 3>> :> <<"Indicativo", "Antecopretérito", "él">>
    @@ <<2, 5, 3>> :> <<"Indicativo", "Copretérito", "nosotros">>
    @@ <<2, 5, 4>> :> <<"Indicativo", "Antecopretérito", "nosotros">>
    @@ <<2, 6, 2>> :> <<"Indicativo", "Copretérito", "vosotros">>
    @@ <<2, 6, 3>> :> <<"Indicativo", "Antecopretérito", "vosotros">>
    @@ <<2, 7, 1>> :> <<"Indicativo", "Copretérito", "ustedes">>
    @@ <<2, 7, 2>> :> <<"Indicativo", "Antecopretérito", "ustedes">>
    @@ <<2, 8, 2>> :> <<"Indicativo", "Copretérito", "ellos">>
    @@ <<2, 8, 3>> :> <<"Indicativo", "Antecopretérito", "ellos">>
    @@ <<3, 1, 3>> :> <<"Indicativo", "Pretérito", "yo">>
    @@ <<3, 1, 4>> :> <<"Indicativo", "Antepretérito", "yo">>
    @@ <<3, 2, 2>> :> <<"Indicativo", "Pretérito", "tú / vos">>
    @@ <<3, 2, 3>> :> <<"Indicativo", "Antepretérito", "tú / vos">>
    @@ <<3, 3, 1>> :> <<"Indicativo", "Pretérito", "usted">>
    @@ <<3, 3, 2>> :> <<"Indicativo", "Antepretérito", "usted">>
    @@ <<3, 4, 2>> :> <<"Indicativo", "Pretérito", "él">>
    @@ <<3, 4, 3>> :> <<"Indicativo", "Antepretérito", "él">>
    @@ <<3, 5, 3>> :> <<"Indicativo", "Pretérito", "nosotros">>
    @@ <<3, 5, 4>> :> <<"Indicativo", "Antepretérito", "nosotros">>
    @@ <<3, 6, 2>> :> <<"Indicativo", "Pretérito", "vosotros">>
    @@ <<3, 6, 3>> :> <<"Indicativo", "Antepretérito", "vosotros">>
    @@ <<3, 7, 1>> :> <<"Indicativo", "Pretérito", "ustedes">>
    @@ <<3, 7, 2>> :> <<"Indicativo", "Antepretérito", "ustedes">>
    @@ <<3, 8, 2>> :> <<"Indicativo", "Pretérito", "ellos">>
    @@ <<3, 8, 3>> :> <<"Indicativo", "Antepretérito", "ellos">>
    @@ <<4, 1, 3>> :> <<"Indicativo", "Futuro", "yo">>
    @@ <<4, 1, 4>> :> <<"Indicativo", "Antefuturo", "yo">>
    @@ <<4, 2, 2>> :> <<"Indicativo", "Futuro", "tú / vos">>
    @@ <<4, 2, 3>> :> <<"Indicativo", "Antefuturo", "tú / vos">>
    @@ <<4, 3, 1>> :> <<"Indicativo", "Futuro", "usted">>
    @@ <<4, 3, 2>> :> <<"Indicativo", "Antefuturo", "usted">>
    @@ <<4, 4, 2>> :> <<"Indicativo", "Futuro", "él">>
    @@ <<4, 4, 3>> :> <<"Indicativo", "Antefuturo", "él">>
    @@ <<4, 5, 3>> :> <<"Indicativo", "Futuro", "nosotros">>
    @@ <<4, 5, 4>> :> <<"Indicativo", "Antefuturo", "nosotros">>
    @@ <<4, 6, 2>> :> <<"Indicativo", "Futuro", "vosotros">>
    @@ <<4, 6, 3>> :> <<"Indicativo", "Antefuturo", "vosotros">>
    @@ <<4, 7, 1>> :> <<"Indicativo", "Futuro", "ustedes">>
    @@ <<4, 7, 2>> :> <<"Indicativo", "Antefuturo", "ustedes">>
    @@ <<4, 8, 2>> :> <<"Indicativo", "Futuro", "ellos">>
    @@ <<4, 8, 3>> :> <<"Indicativo", "Antefuturo", "ellos">>
    @@ <<5, 1, 3>> :> <<"Indicativo", "Pospretérito", "yo">>
    @@ <<5, 1, 4>> :> <<"Indicativo", "Antepospretérito", "yo">>
    @@ <<5, 2, 2>> :> <<"Indicativo", "Pospretérito", "tú / vos">>
    @@ <<5, 2, 3>> :> <<"Indicativo", "Antepospretérito", "tú / vos">>
    @@ <<5, 3, 1>> :> <<"Indicativo", "Pospretérito", "usted">>
    @@ <<5, 3, 2>> :> <<"Indicativo", "Antepospretérito", "usted">>
    @@ <<5, 4, 2>> :> <<"Indicativo", "Pospretérito", "él">>
    @@ <<5, 4, 3>> :> <<"Indicativo", "Antepospretérito", "él">>
    @@ <<5, 5, 3>> :> <<"Indicativo", "Pospretérito", "nosotros">>
    @@ <<5, 5, 4>> :> <<"Indicativo", "Antepospretérito", "nosotros">>
    @@ <<5, 6, 2>> :> <<"Indicativo", "Pospretérito", "vosotros">>
    @@ <<5, 6, 3>> :> <<"Indicativo", "Antepospretérito", "vosotros">>
    @@ <<5, 7, 1>> :> <<"Indicativo", "Pospretérito", "ustedes">>
    @@ <<5, 7, 2>> :> <<"Indicativo", "Antepospretérito", "ustedes">>
    @@ <<5, 8, 2>> :> <<"Indicativo", "Pospretérito", "ellos">>
    @@ <<5, 8, 3>> :> <<"Indicativo", "Antepospretérito", "ellos">>
    @@ <<6, 1, 3>> :> <<"Subjuntivo", "Presente", "yo">>
    @@ <<6, 1, 4>> :> <<"Subjuntivo", "Antepresente", "yo">>
    @@ <<6, 2, 2>> :> <<"Subjuntivo", "Presente", "tú / vos">>
    @@ <<6, 2, 3>> :> <<"Subjuntivo", "Antepresente", "tú / vos">>
    @@ <<6, 3, 1>> :> <<"Subjuntivo", "Presente", "usted">>
    @@ <<6, 3, 2>> :> <<"Subjuntivo", "Antepresente", "usted">>
    @@ <<6, 4, 2>> :> <<"Subjuntivo", "Presente", "él">>
    @@ <<6, 4, 3>> :> <<"Subjuntivo", "Antepresente", "él">>
    @@ <<6, 5, 3>> :> <<"Subjuntivo", "Presente", "nosotros">>
    @@ <<6, 5, 4>> :> <<"Subjuntivo", "Antepresente", "nosotros">>
    @@ <<6, 6, 2>> :> <<"Subjuntivo", "Presente", "vosotros">>
    @@ <<6, 6, 3>> :> <<"Subjuntivo", "Antepresente", "vosotros">>
    @@ <<6, 7, 1>> :> <<"Subjuntivo", "Presente", "ustedes">>
    @@ <<6, 7, 2>> :> <<"Subjuntivo", "Antepresente", "ustedes">>
    @@ <<6, 8, 2>> :> <<"Subjuntivo", "Presente", "ellos">>
    @@ <<6, 8, 3>> :> <<"Subjuntivo", "Antepresente", "ellos">>
    @@ <<7, 1, 3>> :> <<"Subjuntivo", "Pretérito", "yo">>
    @@ <<7, 2, 2>> :> <<"Subjuntivo", "Pretérito", "tú / vos">>
    @@ <<7, 3, 1>> :> <<"Subjuntivo", "Pretérito", "usted">>
    @@ <<7, 4, 2>> :> <<"Subjuntivo", "Pretérito", "él">>
    @@ <<7, 5, 3>> :> <<"Subjuntivo", "Pretérito", "nosotros">>
    @@ <<7, 6, 2>> :> <<"Subjuntivo", "Pretérito", "vosotros">>
    @@ <<7, 7, 1>> :> <<"Subjuntivo", "Pretérito", "ustedes">>
    @@ <<7, 8, 2>> :> <<"Subjuntivo", "Pretérito", "ellos">>
    @@ <<8, 1, 3>> :> <<"Subjuntivo", "Antepretérito", "yo">>
    @@ <<8, 2, 2>> :> <<"Subjuntivo", "Antepretérito", "tú / vos">>
    @@ <<8, 3, 1>> :> <<"Subjuntivo", "Antepretérito", "usted">>
    @@ <<8, 4, 2>> :> <<"Subjuntivo", "Antepretérito", "él">>
    @@ <<8, 5, 3>> :> <<"Subjuntivo", "Antepretérito", "nosotros">>
    @@ <<8, 6, 2>> :> <<"Subjuntivo", "Antepretérito", "vosotros">>
    @@ <<8, 7, 1>> :> <<"Subjuntivo", "Antepretérito", "ustedes">>
    @@ <<8, 8, 2>> :> <<"Subjuntivo", "Antepretérito", "ellos">>
    @@ <<9, 1, 3>> :> <<"Subjuntivo", "Futuro", "yo">>
    @@ <<9, 1, 4>> :> <<"Subjuntivo", "Antefuturo", "yo">>
    @@ <<9, 2, 2>> :> <<"Subjuntivo", "Futuro", "tú / vos">>
    @@ <<9, 2, 3>> :> <<"Subjuntivo", "Antefuturo", "tú / vos">>
    @@ <<9, 3, 1>> :> <<"Subjuntivo", "Futuro", "usted">>
    @@ <<9, 3, 2>> :> <<"Subjuntivo", "Antefuturo", "usted">>
    @@ <<9, 4, 2>> :> <<"Subjuntivo", "Futuro", "él">>
    @@ <<9, 4, 3>> :> <<"Subjuntivo", "Antefuturo", "él">>
    @@ <<9, 5, 3>> :> <<"Subjuntivo", "Futuro", "nosotros">>
    @@ <<9, 5, 4>> :> <<"Subjuntivo", "Antefuturo", "nosotros">>
    @@ <<9, 6, 2>> :> <<"Subjuntivo", "Futuro", "vosotros">>
    @@ <<9, 6, 3>> :> <<"Subjuntivo", "Antefuturo", "vosotros">>
    @@ <<9, 7, 1>> :> <<"Subjuntivo", "Futuro", "ustedes">>
    @@ <<9, 7, 2>> :> <<"Subjuntivo", "Antefuturo", "ustedes">>
    @@ <<9, 8, 2>> :> <<"Subjuntivo", "Futuro", "ellos">>
    @@ <<9, 8, 3>> :> <<"Subjuntivo", "Antefuturo", "ellos">>
    @@ <<10, 1, 3>> :> <<"Imperativo", "Imperativo", "tú / vos">>
    @@ <<10, 2, 1>> :> <<"Imperativo", "Imperativo", "usted">>
    @@ <<10, 3, 3>> :> <<"Imperativo", "Imperativo", "vosotros">>
    @@ <<10, 4, 1>> :> <<"Imperativo", "Imperativo", "ustedes">>

base_conjugations ==
    <<"Formas no personales", "Infinitivo", "">> :> <<>>
    @@ <<"Formas no personales", "Gerundio", "">> :> <<>>
    @@ <<"Formas no personales", "Participio", "">> :> <<>>

\* The tense dictionaries declared empty before the tables are visited.
base_tenses ==
    {<<"Indicativo", tense>> :
         tense \in {"Presente", "Antepresente", "Copretérito", "Antecopretérito", "Pretérito",
                    "Antepretérito", "Futuro", "Antefuturo", "Pospretérito",
                    "Antepospretérito"}}
    \cup {<<"Subjuntivo", tense>> :
              tense \in {"Presente", "Antepresente", "Pretérito", "Antepretérito", "Futuro",
                         "Antefuturo"}}
    \cup {<<"Imperativo", "Imperativo">>}

Conjugation_reset(self) ==
    [self EXCEPT !.id = <<>>, !.verb = <<>>, !.conjugations = <<>>, !.tenses = {}]

\* vt.replace('Conjugación de «', '').replace('»', '')
VerbOf(text) == SelectSeq(text, LAMBDA t : t \notin {"Conjugación de «", "»"})

\* A cell whose text is stored as it stands.
Conjugation_cell_untrimmed(self, t, r, c, cell) ==
    IF <<t, r, c>> \in DOMAIN coordinate_map
    THEN [self EXCEPT !.conjugations = (coordinate_map[<<t, r, c>>] :> TextOf(cell)) @@ @]
    ELSE self

\* One turn of the chain: the slot of the coordinate, if it has one.
\* A cell one column past a mapped coordinate writes the slot of that one.
Conjugation_cell_colliding(self, t, r, c, cell) ==
    IF <<t, r, c>> \in DOMAIN coordinate_map
    THEN [self EXCEPT !.conjugations =
              (coordinate_map[<<t, r, c>>] :> Strip(TextOf(cell))) @@ @]
    ELSE IF <<t, r, c - 1>> \in DOMAIN coordinate_map
    THEN [self EXCEPT !.conjugations =
              (coordinate_map[<<t, r, c - 1>>] :> Strip(TextOf(cell))) @@ @]
    ELSE self

Conjugation_cell(self, t, r, c, cell) ==
    IF <<t, r, c>> \in DOMAIN coordinate_map
    THEN [self EXCEPT !.conjugations =
              (coordinate_map[<<t, r, c>>] :> Strip(TextOf(cell))) @@ @]
    ELSE self

\* for column_index, cell_tag in enumerate(row_tag.contents)
RECURSIVE Conjugation_cells(_, _, _, _, _)
Conjugation_cells(self, t, r, c, cells) ==
    IF cells = <<>> THEN self
    ELSE Conjugation_cells(Conjugation_cell(self, t, r, c, Head(cells)),
                           t, r, c + 1, Tail(cells))

\* A string among the children of a table has no contents.
Conjugation_row(self, t, r, row) ==
    IF row.name = "#text" THEN Raise("AttributeError", self)
    ELSE Ok(Conjugation_cells(self, t, r, 0, row.kids))

RECURSIVE Conjugation_rows(_, _, _, _)
Conjugation_rows(self, t, r, rows) ==
    IF rows = <<>> THEN Ok(self)
    ELSE Bind(Conjugation_row(self, t, r, Head(rows)),
              LAMBDA s : Conjugation_rows(s, t, r + 1, Tail(rows)))

RECURSIVE Conjugation_tables(_, _, _)
Conjugation_tables(self, t, tables) ==
    IF tables = <<>> THEN Ok(self)
    ELSE Bind(Conjugation_rows(self, t, 0, Head(tables).kids),
              LAMBDA s : Conjugation_tables(s, t + 1, Tail(tables)))

\* The verb of the h2 of the header, when there is one.
Conjugation_verb(self, header) ==
    IF Has(header) /\ Has(FindFirst(Val(header).kids, "h2"))
    THEN [self EXCEPT !.verb = VerbOf(TextOf(Val(FindFirst(Val(header).kids, "h2"))))]
    ELSE self

\* self._id = self._soup.div['id']
Conjugation_id(self, div) ==
    IF ~Has(div) THEN Raise("TypeError", self)
    ELSE IF ~Has(Val(div).id) THEN Raise("KeyError", self)
    ELSE Ok([self EXCEPT !.id = Val(Val(div).id)])

Conjugation_section(self, section) ==
    IF ~Has(section) THEN Raise("Exception", self)
    ELSE IF ~Has(Val(section).id) THEN Raise("Exception", self)
    ELSE IF ~StartsWith(Val(Val(section).id), "conjugacion") THEN Raise("Exception", self)
    ELSE Ok(self)

\* The tables visited without the schema being declared first.
Conjugation_fill_without_schema(self) ==
    Bind(Conjugation_tables(self, 0, FindAllNamed(self.soup[1], {"table"})),
         LAMBDA s : Ok([s EXCEPT !.parsed = TRUE]))

Conjugation_fill(self) ==
    Bind(Conjugation_tables([self EXCEPT !.conjugations = base_conjugations,
                                         !.tenses = base_tenses],
                            0, FindAllNamed(self.soup[1], {"table"})),
         LAMBDA s : Ok([s EXCEPT !.parsed = TRUE]))

Conjugation_classify(self) ==
    Bind(Conjugation_section(self, FindFirst(self.soup[1], "section")),
         LAMBDA s : Bind(Conjugation_id(s, FindFirst(s.soup[1], "div")),
                         LAMBDA u : Conjugation_fill(
                                        Conjugation_verb(u, FindFirst(u.soup[1], "header")))))

Conjugation_parse_html(self) ==
    Bind(FromHTML_parse_html(self),
         LAMBDA s : IF s.parsed THEN Ok(s) ELSE Conjugation_classify(Conjugation_reset(s)))

NewConjugation ==
    [cls |-> "Conjugation", html |-> EmptyHtml, parsed |-> FALSE, soup |-> <<>>,
     id |-> <<>>, verb |-> <<>>, conjugations |-> <<>>, tenses |-> {}]

(***************************************************************************)
(* SearchResult.  The pages of the model carry no link and no meta         *)
(* element, so canonical and meta_description stay empty.  debug is        *)
(* __debug__: assert statements run unless the interpreter optimizes.      *)
(* synonyms and antonyms are attributes only once they were assigned.      *)
(***************************************************************************)
SearchResult_reset(self) ==
    [self EXCEPT !.articles = <<>>, !.title = <<>>, !.canonical = <<>>,
                 !.meta_description = <<>>, !.related_entries = <<>>]

\* self._soup.find(name='div', attrs={'id': 'resultados'})
ResultsDiv(top) ==
    SelectSeq(FindAllNamed(top, {"div"}), LAMBDA t : t.id = Attr(<<"resultados">>))

\* results_div_tag.find_all(name='article', recursive=False)
DirectArticles(div) == SelectSeq(div.kids, LAMBDA t : t.name = "article")

\* results_div_tag.find_all(name='article', recursive=True)
AllArticles(div) == FindAllNamed(div.kids, {"article"})

RECURSIVE Elements(_)
Elements(ns) ==
    IF ns = <<>> THEN <<>>
    ELSE (IF Head(ns).name = "#text" THEN <<>> ELSE <<Head(ns)>> \o Elements(Head(ns).kids))
         \o Elements(Tail(ns))

\* article_tag.select('[id^="conjugacion"]')
ConjugationTags(article_tag) ==
    SelectSeq(Elements(article_tag.kids),
              LAMBDA t : Has(t.id) /\ StartsWith(Val(t.id), "conjugacion"))

Article_init(tag) == Article_parse_html([NewArticle EXCEPT !.html = Markup(tag)])

Conjugation_init(tag) == Conjugation_parse_html([NewConjugation EXCEPT !.html = Markup(tag)])

\* The first block: article = Article(html=str(article_tag)); append
SearchResult_append(self, a) ==
    IF ~a.ok THEN Raise(a.err, self) ELSE Ok([self EXCEPT !.articles = Append(@, a.self)])

RECURSIVE SearchResult_first(_, _)
SearchResult_first(self, article_tags) ==
    IF article_tags = <<>> THEN Ok(self)
    ELSE Bind(SearchResult_append(self, Article_init(Head(article_tags))),
              LAMBDA s : SearchResult_first(s, Tail(article_tags)))

\* article.conjugations = conjugations, on the article appended last
SearchResult_attach(self, c) ==
    IF ~c.ok THEN Raise(c.err, self)
    ELSE Ok([self EXCEPT !.articles[Len(self.articles)].conjugations = <<c.self>>])

SearchResult_conjugation(self, found) ==
    IF found = <<>> THEN Ok(self) ELSE SearchResult_attach(self, Conjugation_init(Head(found)))

\* One turn of either loop of the second block.
SearchResult_article(self, article_tag) ==
    Bind(SearchResult_append(self, Article_init(article_tag)),
         LAMBDA s : SearchResult_conjugation(s, ConjugationTags(article_tag)))

RECURSIVE SearchResult_articles(_, _)
SearchResult_articles(self, article_tags) ==
    IF article_tags = <<>> THEN Ok(self)
    ELSE Bind(SearchResult_article(self, Head(article_tags)),
              LAMBDA s : SearchResult_articles(s, Tail(article_tags)))

\* The direct children when there are any, else every descendant.
SearchResult_second(self, div) ==
    IF DirectArticles(div) = <<>> THEN SearchResult_articles(self, AllArticles(div))
    ELSE IF self.debug /\ Len(DirectArticles(div)) # 1 THEN Raise("AssertionError", self)
    ELSE SearchResult_articles(self, DirectArticles(div))

\* self._soup.find_all("section", attrs={"id": re.compile(r"^...")})
SectionsWithId(top, prefix) ==
    SelectSeq(FindAllNamed(top, {"section"}),
              LAMBDA t : Has(t.id) /\ StartsWith(Val(t.id), prefix))

\* section[0].find_all("ul", attrs={"class": "c-related-words"})
RelatedWords(sections) ==
    SelectSeq(FindAllClass(Head(sections).kids, {"c-related-words"}), LAMBDA t : t.name = "ul")

\* The words of the first list of the first section.
WordsOf(self, sections) ==
    IF sections = <<>> THEN Raise("IndexError", self)
    ELSE IF RelatedWords(sections) = <<>> THEN Raise("IndexError", self)
    ELSE Ok(CleanWords(Strings(Head(RelatedWords(sections)).kids)))

SearchResult_antonyms(self, words) ==
    IF ~words.ok THEN words ELSE Ok([self EXCEPT !.antonyms = <<words.self>>, !.parsed = TRUE])

SearchResult_synonyms(self, words) ==
    IF ~words.ok THEN words
    ELSE SearchResult_antonyms([self EXCEPT !.synonyms = <<words.self>>],
                               WordsOf([self EXCEPT !.synonyms = <<words.self>>],
                                       SectionsWithId(self.soup[1], "antonimos")))

SearchResult_title(self, title) ==
    IF Has(title) THEN [self EXCEPT !.title = TextOf(Val(title))] ELSE self

\* The second block, from its _reset on.
SearchResult_results(self, div) ==
    IF div = <<>> THEN Ok([self EXCEPT !.parsed = TRUE])
    ELSE Bind(SearchResult_second(self, Head(div)),
              LAMBDA s : SearchResult_synonyms(s, WordsOf(s, SectionsWithId(s.soup[1],
                                                                             "sinonimos"))))

\* The two blocks without the _reset between them.
SearchResult_classify_keeping_first(self) ==
    Bind(SearchResult_first(SearchResult_title(self, FindFirst(self.soup[1], "title")),
                            IF ResultsDiv(self.soup[1]) = <<>> THEN <<>>
                            ELSE DirectArticles(Head(ResultsDiv(self.soup[1])))),
         LAMBDA s : SearchResult_results(SearchResult_title(s, FindFirst(s.soup[1], "title")),
                                         ResultsDiv(s.soup[1])))

SearchResult_classify(self) ==
    Bind(SearchResult_first(SearchResult_title(self, FindFirst(self.soup[1], "title")),
                            IF ResultsDiv(self.soup[1]) = <<>> THEN <<>>
                            ELSE DirectArticles(Head(ResultsDiv(self.soup[1])))),
         LAMBDA s : SearchResult_results(
                        SearchResult_title(SearchResult_reset(s), FindFirst(s.soup[1], "title")),
                        ResultsDiv(s.soup[1])))

SearchResult_parse_html(self) ==
    Bind(FromHTML_parse_html(self),
         LAMBDA s : IF s.parsed THEN Ok(s) ELSE SearchResult_classify(SearchResult_reset(s)))

NewSearchResult(debug) ==
    [cls |-> "SearchResult", html |-> EmptyHtml, parsed |-> FALSE, soup |-> <<>>,
     debug |-> debug, articles |-> <<>>, title |-> <<>>, canonical |-> <<>>,
     meta_description |-> <<>>, related_entries |-> <<>>,
     synonyms |-> <<>>, antonyms |-> <<>>]

(***************************************************************************)
(* Construction, reassignment, the non-throwing factory and pickling,      *)
(* for every class of the model.                                           *)
(***************************************************************************)
parse_html(self) ==
    CASE self.cls = "Abbr" -> Abbr_parse_html(self)
      [] self.cls = "Word" -> Word_parse_html(self)
      [] self.cls = "Sentence" -> Sentence_parse_html(self)
      [] self.cls = "Definition" -> Definition_parse_html(self)
      [] self.cls = "EntryLema" -> EntryLema_parse_html(self)
      [] self.cls = "Entry" -> Entry_parse_html(self)
      [] self.cls = "ArticleLema" -> ArticleLema_parse_html(self)
      [] self.cls = "Conjugation" -> Conjugation_parse_html(self)
      [] self.cls = "SearchResult" -> SearchResult_parse_html(self)
      [] self.cls = "Article" -> Article_parse_html(self)

\* @html.setter
html_setter(self, value) == parse_html([self EXCEPT !.html = value, !.parsed = FALSE])

\* FromHTML.__init__, after the subclass stored its own arguments in blank.
FromHTML_init(blank, html) ==
    html_setter([blank EXCEPT !.parsed = FALSE, !.soup = <<>>], html)

\* cls(html=html)
Construct(blank, html) == AsCall(FromHTML_init(blank, html))

from_html(blank, html) == Catch(Construct(blank, html))

\* __getstate__
getstate(self) == [self EXCEPT !.soup = <<>>]

\* __setstate__ on the state getstate produced
setstate(state) == parse_html([state EXCEPT !.soup = <<>>])

(***************************************************************************)
(* to_dict, as the set of keys of the dictionary it returns.  The          *)
(* dictionaries of the parts are built on the way, so a part whose to_dict *)
(* raises makes the whole raise.                                           *)
(***************************************************************************)
When(cond, keys) == IF cond THEN keys ELSE {}

FromHTML_to_dict(extended) == When(extended, {"html"})

Abbr_to_dict(self, extended) ==
    FromHTML_to_dict(extended) \cup {"abbr", "text"} \cup When(extended, {"class"})

Word_to_dict(self, extended) ==
    FromHTML_to_dict(extended) \cup {"text"}
    \cup When(self.is_active_link, {"link"})
    \cup When(extended, {"is_active_link"})
    \cup When(extended /\ ~self.is_active_link, {"link"})

Sentence_to_dict(self, extended) ==
    FromHTML_to_dict(extended) \cup {"text"} \cup When(extended, {"components"})

Definition_to_dict(self, extended) ==
    FromHTML_to_dict(extended)
    \cup When(extended, {"id"})
    \cup {"index", "category", "is"}
    \cup When(extended, {"first_of_category"})
    \cup {"abbreviations", "sentence", "examples"}
    \cup When(extended, {"raw_text"})
    \cup When(self.synonyms # <<>>, {"synonyms"})
    \cup When(self.antonyms # <<>>, {"antonyms"})

\* self._category.to_dict(...) on a category that is None
Definition_to_dict_raises(self) == self.category = <<>>

EntryLema_to_dict(self, extended) ==
    FromHTML_to_dict(extended) \cup {"lema"} \cup When(extended, {"id", "is_foreign"})

ArticleLema_to_dict(self, extended) ==
    EntryLema_to_dict(self, extended) \cup {"index", "female_suffix"}
    \cup When(extended, {"is_acronym", "is_prefix", "is_suffix"})

Entry_to_dict(self, extended) ==
    FromHTML_to_dict(extended) \cup {"lema", "supplementary_info", "definitions"}
    \cup When(extended, {"raw_text"})

Entry_to_dict_raises(self) ==
    \E k \in 1..Len(self.definitions) : Definition_to_dict_raises(self.definitions[k])

Conjugation_to_dict(self, extended) ==
    FromHTML_to_dict(extended) \cup When(extended, {"id"}) \cup {"verb", "conjugations"}

Article_to_dict(self, extended) ==
    FromHTML_to_dict(extended)
    \cup {"id", "lema", "supplementary_info", "is", "definitions", "complex_forms",
          "other_entries"}
    \cup When(self.conjugations # <<>>, {"conjugations"})
    \cup When(extended, {"raw_text"})

Article_to_dict_raises(self) ==
    \/ Entry_to_dict_raises(self)
    \/ \E k \in 1..Len(self.complex_forms) : Entry_to_dict_raises(self.complex_forms[k])

\* related_entries is never filled, so its key never appears.
SearchResult_to_dict(self, extended) ==
    FromHTML_to_dict(extended) \cup {"title"}
    \cup When(extended, {"canonical", "meta_description"})
    \cup When(self.articles # <<>>, {"articles"})
    \cup {"synonyms", "antonyms"}

\* self.synonyms or self.antonyms read when it was never assigned, or an
\* article whose to_dict raises
SearchResult_to_dict_raises(self) ==
    \/ self.synonyms = <<>> \/ self.antonyms = <<>>
    \/ \E k \in 1..Len(self.articles) : Article_to_dict_raises(self.articles[k])

to_dict_keys(self, extended) ==
    CASE self.cls = "Abbr" -> Abbr_to_dict(self, extended)
      [] self.cls = "Word" -> Word_to_dict(self, extended)
      [] self.cls = "Sentence" -> Sentence_to_dict(self, extended)
      [] self.cls = "Definition" -> Definition_to_dict(self, extended)
      [] self.cls = "Conjugation" -> Conjugation_to_dict(self, extended)
      [] self.cls = "Article" -> Article_to_dict(self, extended)
      [] self.cls = "SearchResult" -> SearchResult_to_dict(self, extended)

to_dict_raises(self) ==
    CASE self.cls = "Definition" -> Definition_to_dict_raises(self)
      [] self.cls = "Article" -> Article_to_dict_raises(self)
      [] self.cls = "SearchResult" -> SearchResult_to_dict_raises(self)
      [] OTHER -> FALSE

to_dict(self, extended) ==
    IF to_dict_raises(self) THEN Raised("AttributeError")
    ELSE Returned(<<to_dict_keys(self, extended)>>)

(***************************************************************************)
(* The fragments the leaf parsers are applied to.                          *)
(***************************************************************************)
Txt(t) == <<TextNode(<<t>>)>>

KidNodes ==
    { TextNode(<<"w">>),
      TextNode(<<" ">>),
      Elem("sup", NoAttr, NoAttr, NoAttr, NoAttr, Txt("1")),
      Elem("sup", NoAttr, NoAttr, NoAttr, NoAttr,
           <<Elem("mark", NoAttr, NoAttr, Attr(<<"9">>), NoAttr, Txt("n"))>>),
      Elem("mark", NoAttr, NoAttr, Attr(<<"7">>), NoAttr, Txt("m")),
      Elem("mark", NoAttr, NoAttr, NoAttr, NoAttr, Txt("m")),
      Elem("a", NoAttr, NoAttr, NoAttr, Attr(<<"r">>), Txt("k")),
      Elem("abbr", NoAttr, Attr(<<"adverbio">>), NoAttr, NoAttr, Txt("adv.")),
      Elem("span", Attr(<<"u">>), NoAttr, NoAttr, NoAttr, Txt("s")) }

RECURSIVE SeqsUpTo(_, _)
SeqsUpTo(S, n) ==
    IF n = 0 THEN {<<>>}
    ELSE {<<>>} \cup {<<x>> \o s : x \in S, s \in SeqsUpTo(S, n - 1)}

Contents == SeqsUpTo(KidNodes, MaxKids)

ClassAttrs == {NoAttr, Attr(<<>>), Attr(<<"u">>), Attr(<<"d">>)}

RootShapes ==
    {Elem("abbr", c, t, NoAttr, NoAttr, <<>>) :
        c \in {NoAttr, Attr(<<>>), Attr(<<"d">>)},
        t \in {NoAttr, Attr(<<"adjetivo">>)}}
    \cup {Elem("mark", NoAttr, NoAttr, d, NoAttr, <<>>) :
        d \in {NoAttr, Attr(<<"12345">>)}}
    \cup {Elem("a", NoAttr, NoAttr, NoAttr, h, <<>>) :
        h \in {NoAttr, Attr(<<>>), Attr(<<"/", "abajo">>), Attr(<<"otraref">>)}}
    \cup {Elem("span", c, NoAttr, d, NoAttr, <<>>) :
        c \in ClassAttrs, d \in {NoAttr, Attr(<<"12345">>)}}
    \cup {Elem("i", NoAttr, NoAttr, NoAttr, NoAttr, <<>>)}

Fragments == {Markup([r EXCEPT !.kids = ks]) : r \in RootShapes, ks \in Contents}

Htmls == {EmptyHtml, PlainHtml, AngleHtml} \cup Fragments

ParentHrefs == {<<>>, <<"ctx/">>}

Blanks == {NewAbbr} \cup {NewWord(p) : p \in ParentHrefs}

(***************************************************************************)
(* Values of the variables a specification does not use.                   *)
(***************************************************************************)
NoObj == [cls |-> "None"]

NoLast == [op |-> "none"]

LeafIdle == input = [via |-> "none"] /\ output = Pending

LifeIdle == obj = NoObj /\ last = NoLast

ScanIdle ==
    /\ nodes = <<>> /\ index = 0 /\ lema_entry_tag = <<>> /\ tags = <<>>
    /\ complex_form_tag = 0 /\ complex_forms_tags = <<>> /\ other_entries = <<>>
    /\ pc = "idle"

(***************************************************************************)
(* SpecLeaf: one constructor call, or one from_html call, on any fragment. *)
(***************************************************************************)
InitLeaf ==
    /\ input \in [via : {"init", "from_html"}, blank : Blanks, html : Htmls]
    /\ output = Pending
    /\ LifeIdle /\ ScanIdle

CallInit ==
    /\ output.state = "pending" /\ input.via = "init"
    /\ output' = Construct(input.blank, input.html)
    /\ UNCHANGED <<input, obj, last>> /\ UNCHANGED scanVars

CallFromHtml ==
    /\ output.state = "pending" /\ input.via = "from_html"
    /\ output' = from_html(input.blank, input.html)
    /\ UNCHANGED <<input, obj, last>> /\ UNCHANGED scanVars

NextLeaf == CallInit \/ CallFromHtml

SpecLeaf == InitLeaf /\ [][NextLeaf]_vars

(***************************************************************************)
(* SpecSentence: one constructor call, or one from_html call, of Sentence  *)
(* on a root whose children are drawn from SentenceKids.  The parser never *)
(* yields two strings side by side.                                        *)
(***************************************************************************)
Italic(ks) == Plain("i", ks)

SentenceTexts ==
    { TextNode(<<"casa">>),
      TextNode(<<" ">>),
      TextNode(<<"vive", " ", "en", " ", "Perú">>),
      TextNode(<<"Mur.">>),
      TextNode(<<"Col.", " ">>),
      TextNode(<<"21.">>) }

SentenceElements ==
    { Italic(Txt("Mur.")),
      Italic(Txt("casa")),
      Italic(<<Elem("abbr", NoAttr, Attr(<<"adverbio">>), NoAttr, NoAttr, Txt("adv."))>>),
      Elem("abbr", Attr(<<"d">>), Attr(<<"adverbio">>), NoAttr, NoAttr, Txt("adv.")),
      Elem("abbr", NoAttr, NoAttr, NoAttr, NoAttr, Txt("Mur.")),
      Elem("a", NoAttr, NoAttr, NoAttr, Attr(<<"/", "mur">>), Txt("Mur.")),
      Elem("mark", NoAttr, NoAttr, Attr(<<"12345">>), NoAttr, Txt("casa")),
      Elem("span", NoAttr, NoAttr, NoAttr, NoAttr, Txt("x")),
      Elem("span", Attr(<<"x">>), NoAttr, NoAttr, NoAttr, Txt("x")),
      Elem("span", Attr(<<"u">>), NoAttr, NoAttr, NoAttr, Txt("s")),
      Elem("span", Attr(<<"af">>), NoAttr, NoAttr, NoAttr, Txt("s")),
      Elem("span", NoAttr, NoAttr, Attr(<<"12345">>), NoAttr, Txt("s")),
      Elem("span", Attr(<<"h">>), NoAttr, Attr(<<"12345">>), NoAttr,
           <<Elem("abbr", Attr(<<"g">>), Attr(<<"usado">>), NoAttr, NoAttr, Txt("u."))>>) }

SentenceKids == SentenceTexts \cup SentenceElements

NoAdjacentText(ks) ==
    \A k \in 1..(Len(ks) - 1) : ~(ks[k].name = "#text" /\ ks[k + 1].name = "#text")

SentenceContents == {ks \in SeqsUpTo(SentenceKids, MaxKids) : NoAdjacentText(ks)}

SentenceHtmls ==
    {EmptyHtml, PlainHtml, AngleHtml} \cup {Markup(Plain("div", ks)) : ks \in SentenceContents}

IgnoreTags == {{}, {"abbr"}, {"i"}}

SentenceBlanks == {NewSentence(ig) : ig \in IgnoreTags}

InitSentence ==
    /\ input \in [via : {"init", "from_html"}, blank : SentenceBlanks, html : SentenceHtmls]
    /\ output = Pending
    /\ LifeIdle /\ ScanIdle

SpecSentence == InitSentence /\ [][NextLeaf]_vars

(***************************************************************************)
(* SpecDefinition: one constructor call, or one from_html call, of         *)
(* Definition on an item whose inner block holds index spans, example      *)
(* spans, abbreviations and text.  The text of an index span is given      *)
(* character by character.                                                 *)
(***************************************************************************)
Acep(text) == Classed("span", "n_acep", <<TextNode(text)>>)

DefinitionSpans ==
    { Acep(<<"1">>),
      Acep(<<"1", ".">>),
      Acep(<<"1", "2">>),
      Acep(<<"1", "2", ".">>),
      Acep(<<"2", ".", " ">>),
      Acep(<<"3", ".", "4">>),
      Acep(<<"a">>),
      Classed("span", "h", Txt("casa")) }

CategoryAbbr(c, title, text) == Elem("abbr", c, Attr(title), NoAttr, NoAttr, Txt(text))

DefinitionAbbrs ==
    { CategoryAbbr(Attr(<<"d">>), <<"adjetivo">>, "adj."),
      CategoryAbbr(NoAttr, <<"adjetivo", " ", "de", " ", "verbo">>, "adj."),
      CategoryAbbr(NoAttr, <<"verbo", "\n", "x">>, "adj."),
      CategoryAbbr(Attr(<<"g">>), <<"pretérito">>, "pret."),
      CategoryAbbr(NoAttr, <<"verbo", " ", "transitivo">>, "tr."),
      CategoryAbbr(NoAttr, <<"nombre", " ", "masculino">>, "m."),
      Elem("abbr", NoAttr, NoAttr, NoAttr, NoAttr, Txt("adj.")) }

DefinitionKids == DefinitionSpans \cup DefinitionAbbrs \cup {TextNode(<<"hacia", " ", "abajo">>)}

DefinitionContents == {ks \in SeqsUpTo(DefinitionKids, MaxKids) : NoAdjacentText(ks)}

Item(ks) == Classed("div", "c-definitions__item", <<Plain("div", ks)>>)

WordList(kind, ws) ==
    Classed("div", "c-word-list",
            <<Plain("div", <<TextNode(<<kind, ":">>)>>),
              Plain("ul", <<Plain("li", ws)>>)>>)

SomeWords ==
    <<Plain("span", Txt("morada")), TextNode(<<",", " ">>),
      Plain("span", <<TextNode(<<"hogar">>), Plain("sup", Txt("1"))>>), TextNode(<<".">>)>>

FooterItems ==
    {Classed("div", "c-definitions__item",
             <<Plain("div", <<CategoryAbbr(Attr(<<"d">>), <<"nombre", " ", "femenino">>, "f.")>>),
               Classed("div", "c-definitions__item-footer", lists)>>) :
         lists \in {<<WordList("Sin.", SomeWords)>>,
                    <<WordList("Ant.", SomeWords)>>,
                    <<WordList("Sin.", SomeWords), WordList("Ant.", SomeWords)>>,
                    <<TextNode(<<" ">>), WordList("Sin.", SomeWords)>>}}

\* Items whose inner block holds what the main sentence is made of.
SentenceItems ==
    { Item(<<CategoryAbbr(Attr(<<"d">>), <<"adverbio">>, "adv."),
             Italic(Txt("casa")),
             Elem("a", NoAttr, NoAttr, NoAttr, Attr(<<"/", "mur">>),
                  <<TextNode(<<"ver">>), Italic(Txt("casa")), Plain("b", Txt("x"))>>),
             TextNode(<<".">>)>>),
      Item(<<CategoryAbbr(Attr(<<"d">>), <<"adverbio">>, "adv."),
             Elem("span", NoAttr, NoAttr, Attr(<<"12345">>), NoAttr,
                  <<CategoryAbbr(Attr(<<"g">>), <<"usado">>, "u.")>>)>>),
      Item(<<CategoryAbbr(Attr(<<"d">>), <<"adverbio">>, "adv."),
             Elem("span", NoAttr, NoAttr, Attr(<<"12345">>), NoAttr, Txt("s")),
             CategoryAbbr(Attr(<<"c">>), <<"usado">>, "u."),
             TextNode(<<"casa">>)>>),
      Item(<<Acep(<<"1", ".">>), TextNode(<<" ">>),
             CategoryAbbr(Attr(<<"d">>), <<"adverbio">>, "adv."),
             CategoryAbbr(NoAttr, <<"usado">>, "u."),
             TextNode(<<"hacia", " ", "abajo">>)>>) }

DefinitionHtmls ==
    {EmptyHtml, PlainHtml}
    \cup {Markup(item) : item \in FooterItems \cup SentenceItems}
    \cup {Markup(Item(ks)) : ks \in DefinitionContents}
    \cup {Markup(Classed("li", "j", <<Item(ks)>>)) : ks \in DefinitionContents}
    \cup {Markup(Plain("div", ks)) : ks \in DefinitionContents}

InitDefinition ==
    /\ input \in [via : {"init", "from_html"}, blank : {NewDefinition}, html : DefinitionHtmls]
    /\ output = Pending
    /\ LifeIdle /\ ScanIdle

SpecDefinition == InitDefinition /\ [][NextLeaf]_vars

(***************************************************************************)
(* SpecLema: one constructor call, or one from_html call, of EntryLema or  *)
(* ArticleLema on a fragment whose header holds a headword, with or        *)
(* without a homograph digit and a comma clause.                           *)
(***************************************************************************)
Headwords ==
    { <<TextNode(<<"bajo">>)>>,
      <<TextNode(<<" ", "bajo", " ">>)>>,
      <<TextNode(<<"bajo">>), Plain("sup", Txt("1"))>>,
      <<TextNode(<<"bajo", "1">>)>>,
      <<TextNode(<<"bajo", ",", " ", "ja">>)>>,
      <<TextNode(<<"bajo">>), Plain("sup", Txt("2")), TextNode(<<",", " ", "ja">>)>>,
      <<TextNode(<<"<", "h1", ">", "bajo", "<", "/h1", ">">>)>>,
      <<>> }

LemaRoots(ks) ==
    { Classed("h1", "c-page-header__title", ks),
      WithId(Classed("h1", "c-page-header__title", ks), Attr(<<"abajo/">>)),
      Plain("h3", ks),
      Plain("header", <<Plain("h3", ks), Plain("h1", Txt("otro"))>>),
      Plain("div", <<Plain("p", ks), Plain("h3", ks)>>),
      Plain("div", ks) }

LemaHtmls ==
    {EmptyHtml, PlainHtml} \cup UNION {{Markup(r) : r \in LemaRoots(ks)} : ks \in Headwords}

InitLema ==
    /\ input \in [via : {"init", "from_html"}, blank : {NewEntryLema, NewArticleLema},
                  html : LemaHtmls]
    /\ output = Pending
    /\ LifeIdle /\ ScanIdle

SpecLema == InitLema /\ [][NextLeaf]_vars

(***************************************************************************)
(* SpecConjugation: one constructor call, or one from_html call, of        *)
(* Conjugation on a section that holds empty tables up to a table index,   *)
(* then one table with empty rows up to a row index and one row of cells.  *)
(***************************************************************************)
MaxTable == 11

MaxRow == 8

MaxCells == 5

CellText(c) ==
    <<" ",
      CASE c = 0 -> "hablar" [] c = 1 -> "hablando" [] c = 2 -> "hablas"
        [] c = 3 -> "hablo" [] c = 4 -> "he hablado" [] OTHER -> "hablado",
      " ">>

Row(n) == Plain("tr", [c \in 1..n |-> Plain("td", <<TextNode(CellText(c - 1))>>)])

Table(r, n) == Plain("table", [i \in 1..r |-> Plain("tr", <<>>)] \o <<Row(n)>>)

Tables(t, r, n) == [i \in 1..t |-> Plain("table", <<>>)] \o <<Table(r, n)>>

TableContents ==
    {Tables(t, r, n) : t \in 0..MaxTable, r \in 0..MaxRow, n \in 1..MaxCells}
    \cup {<<>>, <<Plain("table", <<TextNode(<<" ">>), Row(1)>>)>>}

ConjugationHeaders ==
    {<<>>,
     <<Plain("header", <<Plain("h2", <<TextNode(<<"Conjugación de «", "hablar", "»">>)>>)>>)>>}

ConjugationId == Attr(<<"conjugacion", "Xhablar">>)

ConjugationRoots(header, tables) ==
    { WithId(Plain("section", header \o <<WithId(Plain("div", tables), Attr(<<"Xhablar">>))>>),
             ConjugationId),
      WithId(Plain("section", header \o <<Plain("div", tables)>>), ConjugationId),
      WithId(Plain("section", header \o tables), ConjugationId),
      WithId(Plain("section", header \o <<WithId(Plain("div", tables), Attr(<<"Xhablar">>))>>),
             Attr(<<"resultados">>)),
      Plain("section", header \o <<WithId(Plain("div", tables), Attr(<<"Xhablar">>))>>),
      WithId(Plain("div", header \o tables), Attr(<<"Xhablar">>)) }

ConjugationHtmls ==
    {EmptyHtml, PlainHtml}
    \cup UNION {{Markup(root) : root \in ConjugationRoots(h, ts)} :
                    h \in ConjugationHeaders, ts \in TableContents}

InitConjugation ==
    /\ input \in [via : {"init", "from_html"}, blank : {NewConjugation},
                  html : ConjugationHtmls]
    /\ output = Pending
    /\ LifeIdle /\ ScanIdle

SpecConjugation == InitConjugation /\ [][NextLeaf]_vars

(***************************************************************************)
(* The article pages the scan is run on.                                   *)
(***************************************************************************)
GoodItem ==
    Classed("div", "c-definitions__item",
            <<Plain("div",
                    <<Elem("abbr", Attr(<<"d">>), Attr(<<"adverbio">>), NoAttr, NoAttr,
                           Txt("adv.")),
                      TextNode(<<"hacia", " ", "abajo">>)>>)>>)

AnchorKid == Elem("a", NoAttr, NoAttr, NoAttr, Attr(<<"r">>), Txt("k"))

ScanNodes ==
    { Classed("div", "n2", Txt("w")),
      Classed("li", "j", <<GoodItem>>),
      Classed("li", "j2", Txt("w")),
      Classed("li", "m", <<GoodItem>>),
      Classed("h3", "k5", Txt("loc")),
      Classed("h3", "k6", Txt("loc")),
      Classed("h3", "l", <<AnchorKid>>),
      Classed("h3", "l3", Txt("w")),
      Classed("span", "f", Txt("w")) }

TitleTag == Classed("h1", "c-page-header__title", Txt("abajo"))

Headers == { <<>>, <<Plain("header", <<>>)>>, <<Plain("header", <<TitleTag>>)>> }

ArticleIds == {NoAttr, Attr(<<"abajo/">>)}

ArticlePages ==
    {Markup(WithId(Plain("article", h \o ns), i)) :
        h \in Headers, ns \in SeqsUpTo(ScanNodes, MaxNodes), i \in ArticleIds}

(***************************************************************************)
(* SpecScan: Article(html) on any article page, one step for what comes    *)
(* before the scan, one step per visited tag, one step for what follows.   *)
(***************************************************************************)
Locals ==
    [lema_entry_tag |-> lema_entry_tag, tags |-> tags,
     complex_form_tag |-> complex_form_tag,
     complex_forms_tags |-> complex_forms_tags,
     other_entries |-> other_entries, err |-> ""]

SetLocals(loc) ==
    /\ lema_entry_tag' = loc.lema_entry_tag
    /\ tags' = loc.tags
    /\ complex_form_tag' = loc.complex_form_tag
    /\ complex_forms_tags' = loc.complex_forms_tags
    /\ other_entries' = loc.other_entries

InitScan ==
    /\ input \in [via : {"init"}, blank : {NewArticle}, html : ArticlePages]
    /\ output = Pending
    /\ LifeIdle
    /\ nodes = <<>> /\ index = 0
    /\ lema_entry_tag = <<>> /\ tags = <<>> /\ complex_form_tag = 0
    /\ complex_forms_tags = <<>> /\ other_entries = <<>>
    /\ pc = "start"

\* _parse_html up to the loop.
Article_start(self) ==
    Bind(FromHTML_parse_html(self), LAMBDA s : Article_before_scan(Article_reset(s)))

Started(before) ==
    /\ obj' = before.self
    /\ IF before.ok
       THEN /\ pc' = "scan"
            /\ nodes' = matching_descendants(Val(ArticleTag(before.self)))
            /\ SetLocals(ScanStart)
            /\ output' = output
       ELSE /\ pc' = "failed"
            /\ output' = Raised(before.err)
            /\ UNCHANGED <<nodes, lema_entry_tag, tags, complex_form_tag,
                           complex_forms_tags, other_entries>>

\* Everything before the loop over matching_descendants.
BeforeScan ==
    /\ pc = "start"
    /\ Started(Article_start([input.blank EXCEPT !.html = input.html, !.parsed = FALSE]))
    /\ UNCHANGED <<input, last, index>>

Visiting(branch) ==
    /\ pc = "scan"
    /\ index < Len(nodes)
    /\ Branch(nodes[index + 1]) = branch

Visited(loc) ==
    /\ SetLocals(loc)
    /\ index' = index + 1
    /\ UNCHANGED <<input, output, obj, last, nodes, pc>>

VisitSupplementary ==
    /\ Visiting("supplementary")
    /\ Visited(AppendToCurrent(Locals, index + 1))

VisitDefinition ==
    /\ Visiting("definition")
    /\ Visited(AppendToCurrent(Locals, index + 1))

VisitComplexForm ==
    /\ Visiting("complex_form")
    /\ Visited(OpenComplexForm(Locals, index + 1))

VisitLiM ==
    /\ Visiting("m")
    /\ Visited(VisitM(Locals, index + 1))

\* The Word of an h3.l was built, or its constructor raised out of the loop.
OtherVisited(loc) ==
    IF loc.err = ""
    THEN Visited(loc)
    ELSE /\ pc' = "failed"
         /\ output' = Raised(loc.err)
         /\ obj' = [obj EXCEPT !.other_entries = other_entries]
         /\ UNCHANGED <<input, last, nodes, index, lema_entry_tag, tags,
                        complex_form_tag, complex_forms_tags, other_entries>>

VisitOtherEntry ==
    /\ Visiting("other")
    /\ OtherVisited(VisitOther(Locals, nodes[index + 1], obj.id))

VisitUnmatched ==
    /\ Visiting("none")
    /\ Visited(Locals)

Finished(r) ==
    /\ obj' = r.self
    /\ pc' = IF r.ok THEN "done" ELSE "failed"
    /\ output' = AsCall(r)

\* Everything after the loop.
AfterScan ==
    /\ pc = "scan"
    /\ index = Len(nodes)
    /\ Finished(Article_after_scan(obj, Locals, Head(TitleTags(Val(ArticleTag(obj)))), nodes))
    /\ UNCHANGED <<input, last, nodes, index, lema_entry_tag, tags,
                   complex_form_tag, complex_forms_tags, other_entries>>

NextScan ==
    \/ BeforeScan
    \/ VisitSupplementary
    \/ VisitDefinition
    \/ VisitComplexForm
    \/ VisitLiM
    \/ VisitOtherEntry
    \/ VisitUnmatched
    \/ AfterScan

SpecScan == InitScan /\ [][NextScan]_vars

\* The steps of SpecScan compute what Article(html) computes in one call.
ScanAgreesWithCall ==
    pc \in {"done", "failed"} => output = Construct(input.blank, input.html)

(***************************************************************************)
(* SpecLife: an instance is constructed, its html is reassigned, it goes   *)
(* through pickle and back, and a SearchResult attaches a Conjugation to   *)
(* an Article.  last records the operation that produced obj.              *)
(***************************************************************************)
(* SpecEntry: one constructor call, or one from_html call, of Entry on a   *)
(* fragment whose direct children are headers, definition items,           *)
(* supplementary blocks and others, under several tag names.               *)
(***************************************************************************)
MaxEntryKids == 3

EntryKids ==
    { Plain("h3", Txt("w")),
      Classed("h3", "k5", Txt("loc")),
      Classed("li", "j", <<GoodItem>>),
      Classed("li", "m", <<Plain("h3", Txt("x")), GoodItem>>),
      Classed("p", "j", <<GoodItem>>),
      Classed("div", "n2", Txt("w")),
      Classed("li", "n", Txt("w")),
      Classed("span", "f", Txt("w")),
      TextNode(<<"w">>) }

EntryContents == {ks \in SeqsUpTo(EntryKids, MaxEntryKids) : NoAdjacentText(ks)}

EntryHtmls == {EmptyHtml, PlainHtml} \cup {Markup(Plain("article", ks)) : ks \in EntryContents}

InitEntry ==
    /\ input \in [via : {"init", "from_html"}, blank : {EntryOfHtml}, html : EntryHtmls]
    /\ output = Pending
    /\ LifeIdle /\ ScanIdle

SpecEntry == InitEntry /\ [][NextLeaf]_vars

(***************************************************************************)
LifeFragments ==
    { Markup(Elem("abbr", Attr(<<"d">>), Attr(<<"adjetivo">>), NoAttr, NoAttr, Txt("adj."))),
      Markup(Elem("abbr", NoAttr, Attr(<<"adverbio">>), NoAttr, NoAttr, Txt("adv."))),
      Markup(Elem("abbr", Attr(<<"d">>), NoAttr, NoAttr, NoAttr, Txt("adj."))),
      Markup(Elem("mark", NoAttr, NoAttr, Attr(<<"12345">>), NoAttr, Txt("casa"))),
      Markup(Elem("a", NoAttr, NoAttr, NoAttr, Attr(<<"otraref">>), Txt("x"))),
      Markup(Elem("a", NoAttr, NoAttr, NoAttr, NoAttr, Txt("x"))),
      Markup(Classed("span", "u", Txt("s"))) }

LifeNodes ==
    { Classed("li", "j", <<GoodItem>>),
      Classed("h3", "k5", Txt("loc")) }

LifePages ==
    {Markup(WithId(Plain("article", <<Plain("header", <<TitleTag>>)>> \o ns),
                   Attr(<<"abajo/">>))) : ns \in SeqsUpTo(LifeNodes, MaxKids)}
    \cup {Markup(WithId(Plain("article", <<Plain("header", <<TitleTag>>),
                                           Classed("h3", "l", <<AnchorKid>>)>>),
                        Attr(<<"abajo/">>))),
          Markup(Plain("article", <<Classed("h3", "k5", Txt("loc"))>>))}

LifeHtmls == {EmptyHtml, PlainHtml} \cup LifeFragments \cup LifePages

LifeBlanks == {NewAbbr, NewArticle} \cup {NewWord(p) : p \in ParentHrefs}

\* The Conjugation a SearchResult builds from the conjugation section.
SomeConjugation == [cls |-> "Conjugation", id |-> <<"conjugacion">>]

\* The instance as its constructor leaves it before html is assigned.
BlankOf(self) ==
    CASE self.cls = "Abbr" -> NewAbbr
      [] self.cls = "Word" -> NewWord(self.parent_href)
      [] self.cls = "Sentence" -> NewSentence(self.ignore_tags)
      [] self.cls = "Article" -> NewArticle

InitLife ==
    /\ obj = NoObj /\ last = NoLast
    /\ LeafIdle /\ ScanIdle

Created(r) ==
    /\ r.ok
    /\ obj' = r.self
    /\ last' = [op |-> "new", value |-> r.self.html, ok |-> TRUE, before |-> NoObj]

\* cls(html=html) returned an instance.
New ==
    /\ obj = NoObj
    /\ \E blank \in LifeBlanks, html \in LifeHtmls : Created(FromHTML_init(blank, html))
    /\ UNCHANGED <<input, output>> /\ UNCHANGED scanVars

Assigned(value, r) ==
    /\ obj' = r.self
    /\ last' = [op |-> "set", value |-> value, ok |-> r.ok, before |-> obj]

\* instance.html = value; the instance stays around when the setter raises.
SetHtml ==
    /\ obj # NoObj
    /\ \E value \in LifeHtmls : Assigned(value, html_setter(obj, value))
    /\ UNCHANGED <<input, output>> /\ UNCHANGED scanVars

Restored(r) ==
    /\ obj' = IF r.ok THEN r.self ELSE obj
    /\ last' = [op |-> "restore", value |-> obj.html, ok |-> r.ok, before |-> obj]

\* pickle.loads(pickle.dumps(instance)); the instance itself is kept when
\* __setstate__ raises.
PickleRoundTrip ==
    /\ obj # NoObj
    /\ Restored(setstate(getstate(obj)))
    /\ UNCHANGED <<input, output>> /\ UNCHANGED scanVars

\* article.conjugations = conjugations, by the SearchResult that built both
AttachConjugation ==
    /\ obj # NoObj /\ obj.cls = "Article" /\ obj.parsed
    /\ obj' = [obj EXCEPT !.conjugations = <<SomeConjugation>>]
    /\ last' = [op |-> "attach", value |-> obj.html, ok |-> TRUE, before |-> obj]
    /\ UNCHANGED <<input, output>> /\ UNCHANGED scanVars

NextLife == New \/ SetHtml \/ PickleRoundTrip \/ AttachConjugation

SpecLife == InitLife /\ [][NextLife]_vars

(***************************************************************************)
(* SpecSearch: one constructor call, or one from_html call, of             *)
(* SearchResult on a page whose results container holds articles as direct *)
(* children, or inside a wrapper, followed by the related-words sections.  *)
(***************************************************************************)
MaxArticles == 2

ConjugationSection(id) ==
    WithId(Plain("section", <<WithId(Plain("div", Tables(1, 1, 4)), Attr(<<"Xhablar">>))>>), id)

ArticleOf(id, ns) ==
    WithId(Plain("article", <<Plain("header", <<TitleTag>>)>> \o ns), Attr(<<id>>))

SearchArticles ==
    { ArticleOf("abajo/", <<Classed("li", "j", <<GoodItem>>)>>),
      ArticleOf("hablar/", <<ConjugationSection(ConjugationId)>>),
      ArticleOf("andar/", <<WithId(Plain("div", <<>>), ConjugationId)>>),
      ArticleOf("ir/", <<WithId(Plain("section", <<>>), ConjugationId)>>),
      Plain("article", <<>>) }

ResultsContents ==
    SeqsUpTo(SearchArticles, MaxArticles)
    \cup {<<Plain("div", as)>> : as \in SeqsUpTo(SearchArticles, MaxArticles)}
    \cup {<<ArticleOf("abajo/", <<>>),
            Plain("div", <<ArticleOf("hablar/", <<ConjugationSection(ConjugationId)>>)>>)>>}

RelatedSection(prefix, ks) == WithId(Plain("section", ks), Attr(<<prefix, "X">>))

RelatedList == <<Classed("ul", "c-related-words", <<Plain("li", SomeWords)>>)>>

RelatedSections ==
    { <<RelatedSection("sinonimos", RelatedList), RelatedSection("antonimos", RelatedList)>>,
      <<RelatedSection("sinonimos", RelatedList)>>,
      <<RelatedSection("sinonimos", <<>>), RelatedSection("antonimos", RelatedList)>>,
      <<>> }

PageOf(body) ==
    Markup(Plain("html", <<Plain("head", <<Plain("title", Txt("abajo"))>>),
                           Plain("body", body)>>))

SearchPages ==
    {PageOf(<<WithId(Plain("div", as), Attr(<<"resultados">>))>> \o rs) :
         as \in ResultsContents, rs \in RelatedSections}
    \cup {PageOf(rs) : rs \in RelatedSections}

InitSearch ==
    /\ input \in [via : {"init", "from_html"},
                  blank : {NewSearchResult(debug) : debug \in BOOLEAN},
                  html : {EmptyHtml} \cup SearchPages]
    /\ output = Pending
    /\ LifeIdle /\ ScanIdle

SpecSearch == InitSearch /\ [][NextLeaf]_vars

(***************************************************************************)
(* SpecDict: an instance of any class is constructed, an Article may get   *)
(* its conjugation, and to_dict is called on it in either mode.            *)
(***************************************************************************)
DictInputs ==
    [blank : {NewAbbr, NewWord(<<>>)}, html : LifeFragments]
    \cup [blank : {NewSentence({})},
          html : {Markup(Plain("div", ks)) : ks \in {c \in SentenceContents : Len(c) <= 1}}]
    \cup [blank : {NewDefinition}, html : DefinitionHtmls]
    \cup [blank : {NewConjugation},
          html : {Markup(root) : root \in ConjugationRoots(<<>>, Tables(1, 1, 4))}]
    \cup [blank : {NewArticle}, html : LifePages]

Build ==
    /\ obj = NoObj
    /\ \E e \in DictInputs : Created(FromHTML_init(e.blank, e.html))
    /\ UNCHANGED <<input, output>> /\ UNCHANGED scanVars

ToDict ==
    /\ obj # NoObj /\ last.op \in {"new", "attach"}
    /\ \E extended \in BOOLEAN :
           last' = [op |-> "to_dict", extended |-> extended,
                    result |-> to_dict(obj, extended)]
    /\ UNCHANGED <<input, output, obj>> /\ UNCHANGED scanVars

NextDict == Build \/ AttachConjugation \/ ToDict

SpecDict == InitLife /\ [][NextDict]_vars

(***************************************************************************)
(* What the claims speak of, stated on the fragment and not on the parse.  *)
(***************************************************************************)
\* The text a reader sees in n once superscripts are taken out.
RECURSIVE VisibleTextOfAll(_)
VisibleText(n) ==
    IF n.name = "#text" THEN n.text
    ELSE IF n.name = "sup" THEN <<>>
    ELSE VisibleTextOfAll(n.kids)

VisibleTextOfAll(ns) ==
    IF ns = <<>> THEN <<>> ELSE VisibleText(Head(ns)) \o VisibleTextOfAll(Tail(ns))

\* The first element called nm that is not inside a superscript.
RECURSIVE FirstOutsideSup(_, _)
FirstOutsideSup(ns, nm) ==
    IF ns = <<>> THEN <<>>
    ELSE IF Head(ns).name = nm THEN <<Head(ns)>>
    ELSE IF Head(ns).name # "sup" /\ FirstOutsideSup(Head(ns).kids, nm) # <<>>
         THEN FirstOutsideSup(Head(ns).kids, nm)
    ELSE FirstOutsideSup(Tail(ns), nm)

Called == output.state # "pending"

Built == output.state = "returned" /\ output.value # <<>>

Instance == output.value[1]

InitOf(c) == input.via = "init" /\ input.blank.cls = c /\ Called

TheMark == FirstOutsideSup(input.html.top, "mark")

TheAnchor == FirstOutsideSup(input.html.top, "a")

TheSpan == FirstOutsideSup(input.html.top, "span")

RootOf(html) == html.top[1]

\* How many of the tags take the given branch of the scan.
CountBranch(ns, branch) == Len(SelectSeq(ns, LAMBDA t : Branch(t) = branch))

\* The group of the most recently opened complex form that is listed.
LastListed == complex_forms_tags[Len(complex_forms_tags)]

\* The groups that are parsed after the scan.
ParsedGroups ==
    <<lema_entry_tag>> \o [k \in 1..Len(complex_forms_tags) |-> tags[complex_forms_tags[k]]]

\* In how many parsed groups the tag at position i was put.
TimesAttached(i) ==
    Cardinality({g \in 1..Len(ParsedGroups) :
                    \E k \in 1..Len(ParsedGroups[g]) : ParsedGroups[g][k] = i})

\* A value the base parse accepts: not empty and holding a tag.
HasTags(html) == ~html.empty /\ html.tagged

\* The instance a full reset followed by classification of value gives.
ResetAndClassified(before, value) == FromHTML_init(BlankOf(before), value).self

(***************************************************************************)
(* C1: in the Article scan every h3.k5/k6 header opens one complex form,   *)
(* in document order, so that a constructed Article has as many complex    *)
(* forms as headers; every li.j/j1/j2 or div.n1..n5 after a header goes to *)
(* the complex form of the latest header and not to the lemma entry; an    *)
(* h3.l/l2/l3 met while a complex form is open adds exactly one item to    *)
(* other_entries and changes neither the groups nor the current group.     *)
(***************************************************************************)
C1_Header(i) ==
    /\ tags' = Append(tags, <<i>>)
    /\ complex_forms_tags' = Append(complex_forms_tags, Len(tags) + 1)
    /\ lema_entry_tag' = lema_entry_tag

C1_Item(i) ==
    complex_forms_tags # <<>> =>
        /\ tags' = [tags EXCEPT ![LastListed] = Append(@, i)]
        /\ complex_forms_tags' = complex_forms_tags
        /\ lema_entry_tag' = lema_entry_tag

C1_CrossReference ==
    complex_forms_tags # <<>> =>
        /\ Len(other_entries') = Len(other_entries) + 1
        /\ tags' = tags /\ complex_forms_tags' = complex_forms_tags
        /\ complex_form_tag' = complex_form_tag
        /\ lema_entry_tag' = lema_entry_tag

C1_Step ==
    /\ Visiting("complex_form") => C1_Header(index + 1)
    /\ (Visiting("definition") \/ Visiting("supplementary")) => C1_Item(index + 1)
    /\ Visiting("other") => C1_CrossReference
    /\ pc' = "done" => Len(obj'.complex_forms) = CountBranch(nodes, "complex_form")

C1_GroupingScan == [][C1_Step]_vars

\* The same with the cross-reference step looked at only when its Word
\* was built: the grouping itself is as C1 says.
GroupingStepWhenWordsParse ==
    /\ Visiting("complex_form") => C1_Header(index + 1)
    /\ (Visiting("definition") \/ Visiting("supplementary")) => C1_Item(index + 1)
    /\ (Visiting("other") /\ pc' # "failed") => C1_CrossReference
    /\ pc' = "done" => Len(obj'.complex_forms) = CountBranch(nodes, "complex_form")

GroupingWhenWordsParse == [][GroupingStepWhenWordsParse]_vars

(***************************************************************************)
(* C2: throughout the scan the current group is the lemma entry or the     *)
(* most recently opened complex form, which is listed among the complex    *)
(* forms; every matched li (j, j1, j2, m) and div (n1..n5) visited so far  *)
(* is in exactly one group that is parsed after the scan.                  *)
(***************************************************************************)
C2_NothingDropped ==
    pc = "scan" =>
        /\ \/ complex_form_tag = 0
           \/ (complex_forms_tags # <<>> /\ complex_form_tag = LastListed)
        /\ \A i \in 1..index :
               Branch(nodes[i]) \in {"supplementary", "definition", "m"}
                   => TimesAttached(i) = 1

(***************************************************************************)
(* C3: assigning to html the value it already holds leaves the instance    *)
(* as it was, for an Abbr, a Word and an Article with or without an        *)
(* attached Conjugation.                                                   *)
(***************************************************************************)
C3_ReparseIdempotent ==
    (last.op = "set" /\ last.value = last.before.html) => obj = last.before

\* The same for instances that carry no Conjugation.
ReparseIdempotentWithoutConjugation ==
    (/\ last.op = "set" /\ last.value = last.before.html
     /\ (last.before.cls = "Article" => last.before.conjugations = <<>>))
        => obj = last.before

C5_Agrees(direct) ==
    /\ output.state = "returned"
    /\ (output.value = <<>>) <=> (direct.state = "raised")
    /\ direct.state = "returned" => output.value = direct.value

C6_MarkHasPriority ==
    (InitOf("Word") /\ Has(TheMark) /\ Has(Val(TheMark).dataid)) =>
        /\ Built
        /\ Instance.text = VisibleText(Val(TheMark))
        /\ Instance.href = <<"/", "?id=">> \o Val(Val(TheMark).dataid)
        /\ Instance.is_active_link = FALSE

C6_Witness ==
    /\ InitOf("Word") /\ Built
    /\ RootOf(input.html).name = "span"
    /\ Len(RootOf(input.html).kids) = 2
    /\ RootOf(input.html).kids[1].name = "a"
    /\ RootOf(input.html).kids[2].name = "mark"
    /\ Instance.href = <<"/", "?id=", "7">>

(***************************************************************************)
(* C7: the href of a constructed Word is empty or starts with "/"; an      *)
(* anchor href that starts with "/" is kept, any other non-empty anchor    *)
(* href becomes "/" + parent context + href; is_active_link is true        *)
(* exactly for a Word taken from an anchor.                                *)
(***************************************************************************)
C7_HrefNormalized ==
    (InitOf("Word") /\ Built) =>
        LET fromAnchor == ~Has(TheMark) /\ Has(TheAnchor)
            given == Val(Val(TheAnchor).href)
        IN  /\ Instance.href = <<>> \/ Head(Instance.href) = "/"
            /\ Instance.is_active_link <=> fromAnchor
            /\ fromAnchor =>
                 /\ Has(Val(TheAnchor).href)
                 /\ (given # <<>> /\ Head(given) = "/") => Instance.href = given
                 /\ (given # <<>> /\ Head(given) # "/") =>
                        Instance.href = <<"/">> \o input.blank.parent_href \o given
                 /\ given = <<>> => Instance.href = <<>>

C7_Witness ==
    /\ InitOf("Word") /\ Built
    /\ input.blank.parent_href = <<"ctx/">>
    /\ RootOf(input.html).name = "a"
    /\ Instance.is_active_link
    /\ Instance.href = <<"/", "ctx/", "otraref">>

(***************************************************************************)
(* C8: with no mark and no anchor, a fragment whose span has class u or a  *)
(* data-id attribute (with or without a class attribute) is a Word with    *)
(* the span's text, no href, not an active link; a fragment of none of the *)
(* three shapes is not constructed.                                        *)
(***************************************************************************)
SpanShape(sp) ==
    \/ (Has(sp.cls) /\ Val(sp.cls) # <<>> /\ Lower(Val(sp.cls)[1]) = "u")
    \/ Has(sp.dataid)

C8_SpanShapeOrFailure ==
    (InitOf("Word") /\ ~Has(TheMark) /\ ~Has(TheAnchor)) =>
        IF Has(TheSpan) /\ SpanShape(Val(TheSpan))
        THEN /\ Built
             /\ Instance.text = VisibleText(Val(TheSpan))
             /\ Instance.href = <<>>
             /\ Instance.is_active_link = FALSE
        ELSE output.state = "raised"

(***************************************************************************)
(* C9: an abbr element yields an Abbr exactly when it has a title; then    *)
(* abbr is its text, class its first class token (empty without one) and   *)
(* text its title.                                                         *)
(***************************************************************************)
FirstClassToken(tag) ==
    IF Has(tag.cls) /\ Val(tag.cls) # <<>> THEN Val(tag.cls)[1] ELSE ""

C9_AbbrIffTitle ==
    (InitOf("Abbr") /\ input.html.tagged /\ RootOf(input.html).name = "abbr") =>
        LET tag == RootOf(input.html)
        IN  /\ Built <=> Has(tag.title)
            /\ ~Built => output.state = "raised"
            /\ Built => /\ Instance.abbr = TextOf(tag)
                        /\ Instance.class_ = FirstClassToken(tag)
                        /\ Instance.text = Val(tag.title)

(***************************************************************************)
(* C10: Abbr construction fails whenever the root of the fragment is not   *)
(* an abbr element, also when an abbr with a title is nested in the root.  *)
(***************************************************************************)
C10_RootMustBeAbbr ==
    (InitOf("Abbr") /\ input.html.tagged /\ RootOf(input.html).name # "abbr") =>
        output.state = "raised"

(***************************************************************************)
(* What the Sentence claims speak of.                                      *)
(***************************************************************************)
\* A Sentence was constructed from a fragment whose root is an element.
SentenceOf(root) ==
    /\ InitOf("Sentence") /\ HasTags(input.html)
    /\ root = RootOf(input.html) /\ root.name # "#text"

OnlyText(root) == \A k \in 1..Len(root.kids) : root.kids[k].name = "#text"

TextComponents(ks) == [k \in 1..Len(ks) |-> PlainText(ks[k].text)]

\* The trimmed text ends with a deny-list token.
TrailingDenied(t) ==
    /\ Strip(t) # <<>>
    /\ \E ua \in unwanted_abbreviations : EndsWith(Strip(t)[Len(Strip(t))], ua)

KeptTexts(ks) == SelectSeq(ks, LAMBDA n : ~TrailingDenied(n.text))

(***************************************************************************)
(* C11 as stated: a Sentence whose root has only text-node children has    *)
(* exactly those text nodes as components, in document order, and its text *)
(* is their trimmed concatenation, whatever the text is.                   *)
(***************************************************************************)
C11_RoundTrip(root) ==
    (SentenceOf(root) /\ OnlyText(root)) =>
        /\ Built
        /\ Instance.components = TextComponents(root.kids)
        /\ Sentence_text(Instance) = Strip(TextOfAll(root.kids))

C11_PlainTextRoundTrip == C11_RoundTrip(RootOf(input.html))

(***************************************************************************)
(* C11 amended: a Sentence whose root has only text-node children has as   *)
(* components exactly those text nodes whose trimmed text does not end     *)
(* with a deny-list token, in document order, and its text is their        *)
(* trimmed concatenation; a text node whose trimmed text ends with a       *)
(* deny-list token ("Col.", "Perú", "1.") contributes no component.        *)
(***************************************************************************)
C11_RoundTripOfKept(root) ==
    (SentenceOf(root) /\ OnlyText(root)) =>
        /\ Built
        /\ Instance.components = TextComponents(KeptTexts(root.kids))
        /\ Sentence_text(Instance) = Strip(TextOfAll(KeptTexts(root.kids)))

C11_PlainTextExceptDenied == C11_RoundTripOfKept(RootOf(input.html))

C11_Witness ==
    /\ InitOf("Sentence") /\ Built
    /\ RootOf(input.html).kids = <<TextNode(<<"vive", " ", "en", " ", "Perú">>)>>
    /\ Instance.components = <<>>

(***************************************************************************)
(* What one child of the root contributes when the deny-list is applied to *)
(* the child's trailing text.                                              *)
(***************************************************************************)
DropsTrailingDenied(tag, abbr, word) ==
    IF abbr.value # <<>> THEN <<abbr.value[1]>>
    ELSE IF word.value # <<>> THEN <<word.value[1]>>
    ELSE IF TrailingDenied(TextOf(tag)) THEN <<>>
    ELSE <<PlainText(TextOf(tag))>>

Contribution(self, tag) ==
    IF Sentence_skips(self, tag) THEN <<>>
    ELSE DropsTrailingDenied(tag,
                             Catch(AsCall(Abbr_init(ChildHtml(tag)))),
                             Catch(AsCall(Word_init(ChildHtml(tag), <<>>))))

RECURSIVE Contributions(_, _)
Contributions(self, children) ==
    IF children = <<>> THEN <<>>
    ELSE Contribution(self, Head(children)) \o Contributions(self, Tail(children))

(***************************************************************************)
(* C12: a child of a Sentence that parses neither as Abbr nor as Word and  *)
(* whose trailing text is a deny-list token contributes no component,      *)
(* whether it is a bare text node or an element such as <i>Mur.</i>;       *)
(* children that parse as Abbr or Word are kept whatever their text.       *)
(***************************************************************************)
C12_Drops(root) ==
    (SentenceOf(root) /\ Built) =>
        Instance.components = Contributions(Instance, root.kids)

C12_DenyListDrop == C12_Drops(RootOf(input.html))

(***************************************************************************)
(* Definition claims.                                                      *)
(***************************************************************************)
DefinitionOf(abbr) ==
    /\ InitOf("Definition") /\ Built
    /\ Instance.category # <<>> /\ Instance.category[1].abbr = abbr

(***************************************************************************)
(* C13 as stated: a Definition whose category abbreviation is "adj."       *)
(* reports is_adjective true and every other is_* false, for every         *)
(* expansion text of the category; one whose category abbreviation is      *)
(* "pret." reports is_verb true.                                           *)
(***************************************************************************)
C13_OnlyAdjective(d) ==
    /\ Definition_is_adjective(d)
    /\ ~Definition_is_adverb(d) /\ ~Definition_is_interjection(d)
    /\ ~Definition_is_noun(d) /\ ~Definition_is_pronoun(d)
    /\ ~Definition_is_verb(d)

C13_Classification ==
    /\ DefinitionOf(<<"adj.">>) => C13_OnlyAdjective(Instance)
    /\ DefinitionOf(<<"pret.">>) => Definition_is_verb(Instance)

(***************************************************************************)
(* C13 amended: a Definition whose category abbreviation is "adj." reports *)
(* is_adjective true and is_adverb, is_interjection, is_noun, is_pronoun   *)
(* false for every expansion text, and is_verb true exactly when the       *)
(* expansion text matches the verb pattern (it contains "verbo"); one      *)
(* whose category abbreviation is "pret." reports is_verb true.            *)
(***************************************************************************)
C13_AdjectiveAndVerbByText(d) ==
    /\ Definition_is_adjective(d)
    /\ ~Definition_is_adverb(d) /\ ~Definition_is_interjection(d)
    /\ ~Definition_is_noun(d) /\ ~Definition_is_pronoun(d)
    /\ Definition_is_verb(d) <=> verb_re_match(d.category[1].text)

C13_ClassificationByText ==
    /\ DefinitionOf(<<"adj.">>) => C13_AdjectiveAndVerbByText(Instance)
    /\ DefinitionOf(<<"pret.">>) => Definition_is_verb(Instance)

C13_Witness ==
    /\ DefinitionOf(<<"adj.">>)
    /\ Instance.category[1].text = <<"adjetivo", " ", "de", " ", "verbo">>
    /\ Definition_is_adjective(Instance) /\ Definition_is_verb(Instance)

\* The class n_acep spans among the descendants, in document order.
AcepSpans(top) ==
    SelectSeq(FindAllNamed(top, {"span"}), LAMBDA t : FirstClassLower(t) = "n_acep")

\* Digits followed by non-digits, digits alone included.
DigitsThenNonDigits(text) ==
    /\ LeadingDigits(text) >= 1
    /\ \A j \in (LeadingDigits(text) + 1)..Len(text) : text[j] \notin Digits

FullLeadingNumber(text) == ToInt(SubSeq(text, 1, LeadingDigits(text)))

FirstMatchWins(spans) ==
    IF \E k \in 1..Len(spans) : DigitsThenNonDigits(TextOf(spans[k]))
    THEN FullLeadingNumber(TextOf(spans[
             CHOOSE k \in 1..Len(spans) :
                 /\ DigitsThenNonDigits(TextOf(spans[k]))
                 /\ \A m \in 1..(k - 1) : ~DigitsThenNonDigits(TextOf(spans[m]))]))
    ELSE 0

(***************************************************************************)
(* C18: the index of a Definition is set by the first span.n_acep, in      *)
(* document order, whose text is digits followed by non-digits (digits     *)
(* alone included), to the full leading number; later matching spans do    *)
(* not change it, and without a matching span it stays 0.                  *)
(***************************************************************************)
C18_FirstMatchSetsIndex ==
    (InitOf("Definition") /\ Built) =>
        Instance.index = FirstMatchWins(AcepSpans(input.html.top))

(***************************************************************************)
(* Conjugation claims.                                                     *)
(***************************************************************************)
TablesOf(html) == FindAllNamed(html.top, {"table"})

\* The coordinates at which the tables have a cell, counted from 0.
Coordinates(tables) ==
    UNION {UNION {{<<t - 1, r - 1, c - 1>> : c \in 1..Len(tables[t].kids[r].kids)} :
                      r \in 1..Len(tables[t].kids)} :
               t \in 1..Len(tables)}

CellAt(tables, x) == tables[x[1] + 1].kids[x[2] + 1].kids[x[3] + 1]

Mapped(tables) == Coordinates(tables) \cap DOMAIN coordinate_map

\* A section the parse accepts, with rows that are elements.
AcceptedSection(html) ==
    /\ HasTags(html)
    /\ Has(FindFirst(html.top, "section"))
    /\ Has(Val(FindFirst(html.top, "section")).id)
    /\ StartsWith(Val(Val(FindFirst(html.top, "section")).id), "conjugacion")
    /\ Has(FindFirst(html.top, "div"))
    /\ Has(Val(FindFirst(html.top, "div")).id)
    /\ \A t \in 1..Len(TablesOf(html)) : \A r \in 1..Len(TablesOf(html)[t].kids) :
           TablesOf(html)[t].kids[r].name # "#text"

Yo == <<"Indicativo", "Presente", "yo">>

(***************************************************************************)
(* C14: a cell at (table 1, row 1, column 3) sets Indicativo/Presente/yo   *)
(* to its trimmed text; every cell at a mapped coordinate sets its slot to *)
(* its trimmed text; a cell at a coordinate absent from the map ((1,1,0),  *)
(* any table index above 10) changes no slot and raises no error, so the   *)
(* slots that no cell reaches stay unset and the parse returns.            *)
(***************************************************************************)
C14_Slots(tables, conjugations) ==
    /\ <<1, 1, 3>> \in Coordinates(tables) =>
           /\ Yo \in DOMAIN conjugations
           /\ conjugations[Yo] = Strip(TextOf(CellAt(tables, <<1, 1, 3>>)))
    /\ DOMAIN conjugations =
           DOMAIN base_conjugations \cup {coordinate_map[x] : x \in Mapped(tables)}
    /\ \A x \in Mapped(tables) :
           conjugations[coordinate_map[x]] = Strip(TextOf(CellAt(tables, x)))
    /\ \A slot \in DOMAIN base_conjugations \ {coordinate_map[x] : x \in Mapped(tables)} :
           conjugations[slot] = <<>>

C14_Coordinates ==
    (InitOf("Conjugation") /\ AcceptedSection(input.html)) =>
        /\ Built
        /\ C14_Slots(TablesOf(input.html), Instance.conjugations)

C14_Witness ==
    /\ InitOf("Conjugation") /\ Built
    /\ {<<1, 1, 0>>, <<1, 1, 3>>} \subseteq Coordinates(TablesOf(input.html))
    /\ <<1, 1, 4>> \notin Coordinates(TablesOf(input.html))
    /\ Instance.conjugations[Yo] = <<"hablo">>
    /\ <<"Indicativo", "Antepresente", "yo">> \notin DOMAIN Instance.conjugations

(***************************************************************************)
(* Serialization claims.                                                   *)
(***************************************************************************)
\* The identifier, raw-source and derived-flag keys.
IdentifiersSourceAndFlags ==
    {"id", "html", "raw_text", "is", "is_active_link", "first_of_category", "is_foreign",
     "is_acronym", "is_prefix", "is_suffix"}

Serialized == last.op = "to_dict" /\ last.result.state = "returned"

(***************************************************************************)
(* C15: for every entity the compact to_dict output has no identifier key, *)
(* no raw-source key and no derived-flag key, and the extended key set is  *)
(* a superset of the compact key set.                                      *)
(***************************************************************************)
C15_Modes(compact, extended) ==
    /\ compact.value[1] \cap IdentifiersSourceAndFlags = {}
    /\ compact.value[1] \subseteq extended.value[1]

C15_SerializationModes ==
    Serialized => C15_Modes(to_dict(obj, FALSE), to_dict(obj, TRUE))

(***************************************************************************)
(* SearchResult claims.                                                    *)
(***************************************************************************)
\* The article elements the results container is searched for: its direct
\* children if there are any, else every descendant.
Matched(div) == IF DirectArticles(div) # <<>> THEN DirectArticles(div) ELSE AllArticles(div)

\* An article element that parses, with a conjugation that parses if any.
ParseableArticle(tag) ==
    /\ Article_init(tag).ok
    /\ ConjugationTags(tag) # <<>> => Conjugation_init(Head(ConjugationTags(tag))).ok

\* A page with a results container, parseable articles and both
\* related-words sections.
ParseablePage(html) ==
    /\ HasTags(html)
    /\ ResultsDiv(html.top) # <<>>
    /\ \A k \in 1..Len(Matched(Head(ResultsDiv(html.top)))) :
           ParseableArticle(Matched(Head(ResultsDiv(html.top)))[k])
    /\ \A prefix \in {"sinonimos", "antonimos"} :
           /\ SectionsWithId(html.top, prefix) # <<>>
           /\ RelatedWords(SectionsWithId(html.top, prefix)) # <<>>

HtmlOfEach(articles) == [k \in 1..Len(articles) |-> articles[k].html]

MarkupOfEach(article_tags) == [k \in 1..Len(article_tags) |-> Markup(article_tags[k])]

(***************************************************************************)
(* C16: on a page whose results container has N >= 1 direct-child article  *)
(* elements construction succeeds and articles holds exactly those N       *)
(* Articles in document order, for every N; when it has none, articles     *)
(* holds one Article per article descendant, in document order.            *)
(***************************************************************************)
C16_Articles(matched) ==
    /\ Built
    /\ HtmlOfEach(Instance.articles) = MarkupOfEach(matched)

C16_ArticlesOfResults ==
    (InitOf("SearchResult") /\ ParseablePage(input.html)) =>
        C16_Articles(Matched(Head(ResultsDiv(input.html.top))))

\* The same with assert statements compiled away.
C16_WithoutAssertions ==
    (InitOf("SearchResult") /\ ParseablePage(input.html) /\ ~input.blank.debug) =>
        C16_Articles(Matched(Head(ResultsDiv(input.html.top))))

(***************************************************************************)
(* C17: while the nodes of an Article are grouped, a node that fails to    *)
(* parse as the leaf it is tried as does not abort the parse: the visit of *)
(* a node, an h3 with class l, l2 or l3 that matches no Word shape         *)
(* included, leaves the scan running.                                      *)
(***************************************************************************)
C17_VisitKeepsScanning == (pc = "scan" /\ index < Len(nodes)) => pc' = "scan"

C17_NonAbortingClassification == [][C17_VisitKeepsScanning]_vars

\* The part of C17 about Sentence: composing a Sentence over an element
\* never raises, whatever its children fail to parse as.
SentenceCompositionNeverAborts ==
    (InitOf("Sentence") /\ HasTags(input.html) /\ RootOf(input.html).name # "#text") => Built

(***************************************************************************)
(* Lemma claims.                                                           *)
(***************************************************************************)
\* The header the lemma is read from.
LemaHeader(top) ==
    IF Has(FindFirst(top, "h1")) THEN FindFirst(top, "h1") ELSE FindFirst(top, "h3")

\* The fields of a constructed lemma are those the Entry scan keeps.
LemaAgreesWithEntry ==
    (InitOf("ArticleLema") /\ Built) =>
        /\ EntryLema_from_html(RootOf(input.html), "ArticleLema") # <<>>
        /\ \A f \in {"id", "lema", "is_foreign", "index", "female_suffix"} :
               Instance[f] = EntryLema_from_html(RootOf(input.html), "ArticleLema")[1][f]

CarriesDigit(text) == \E k \in 2..Len(text) : text[k] \in Digits

CarriesCommaClause(text) == \E k \in 2..(Len(text) - 1) : text[k] = ","

(***************************************************************************)
(* C19: an ArticleLema whose headword carries a homograph digit has        *)
(* index # 0, and one whose headword carries a comma clause has a          *)
(* non-empty female_suffix, the digit and the clause being removed from    *)
(* the headword.                                                           *)
(***************************************************************************)
C19_Extracted(text, lema) ==
    /\ CarriesDigit(text) => (lema.index # 0 /\ ~CarriesDigit(lema.lema))
    /\ CarriesCommaClause(text) =>
           (lema.female_suffix # <<>> /\ ~CarriesCommaClause(lema.lema))

C19_ArticleLemaVariant ==
    (InitOf("ArticleLema") /\ Built) =>
        C19_Extracted(Strip(TextOf(Val(LemaHeader(input.html.top)))), Instance)

(***************************************************************************)
(* Entry claims.                                                           *)
(***************************************************************************)
\* The direct children that are ts, in document order.
ChildTags(root) == SelectSeq(root.kids, LAMBDA t : t.name # "#text")

HeaderParseable(tag) == EntryLema_from_html(tag, "EntryLema") # <<>>

\* The position of the first child that parses as a lemma header, 0 if none.
FirstHeader(ts) ==
    IF \E k \in 1..Len(ts) : HeaderParseable(ts[k])
    THEN CHOOSE k \in 1..Len(ts) :
             /\ HeaderParseable(ts[k])
             /\ \A m \in 1..(k - 1) : ~HeaderParseable(ts[m])
    ELSE 0

AfterLema(ts) == SubSeq(ts, FirstHeader(ts) + 1, Len(ts))

\* The first character of the first class token, "" without a class.
LetterOf(tag) == IF Has(tag.cls) /\ Val(tag.cls) # <<>> THEN ClassLetter(tag) ELSE ""

DefinitionChildren(ts) == SelectSeq(ts, LAMBDA t : LetterOf(t) \in {"j", "m"})

SupplementaryChildren(ts) == SelectSeq(ts, LAMBDA t : LetterOf(t) = "n")

DefinitionsOf(ts) == [k \in 1..Len(ts) |-> Definition_init(ts[k]).self]

SentencesOf(ts) == [k \in 1..Len(ts) |-> Sentence_init(Markup(ts[k]), {}).self]

\* The children after the lemma are classified by class letter alone.
ClassifiedByLetter(self, ts) ==
    /\ self.definitions = DefinitionsOf(DefinitionChildren(AfterLema(ts)))
    /\ self.supplementary_info = SentencesOf(SupplementaryChildren(AfterLema(ts)))

\* The lemma is the first header-parseable child.
LemaIsFirstHeader(self, ts) ==
    self.lema = EntryLema_from_html(ts[FirstHeader(ts)], "EntryLema")

\* No child before the lemma carries a class letter of a definition or of a
\* supplementary block.
LemaComesFirst(ts) ==
    \A k \in 1..(FirstHeader(ts) - 1) : LetterOf(ts[k]) \notin {"j", "m", "n"}

C20_SinglePass(self, ts) ==
    /\ LemaIsFirstHeader(self, ts)
    /\ LemaComesFirst(ts) => ClassifiedByLetter(self, ts)

EntryOnTag == InitOf("Entry") /\ HasTags(input.html) /\ RootOf(input.html).name # "#text"

(***************************************************************************)
(* C20: the lemma of an Entry is the first direct child that parses as a   *)
(* lemma header and no later one replaces it; the children after it are    *)
(* classified by the first character of their first class token alone,     *)
(* whatever their tag name (j or m a Definition, n a supplementary         *)
(* Sentence, others ignored), in document order; an Entry without a lemma  *)
(* child is not constructed.                                               *)
(***************************************************************************)
C20_EntrySinglePass ==
    EntryOnTag =>
        IF FirstHeader(ChildTags(RootOf(input.html))) = 0 THEN ~Built
        ELSE Built => C20_SinglePass(Instance, ChildTags(RootOf(input.html)))

\* The same with the tag names the code asks for: li for j and m, div for n.
NamedAndLettered(t) ==
    \/ (t.name = "li" /\ LetterOf(t) \in {"j", "m"})
    \/ (t.name = "div" /\ LetterOf(t) = "n")

LiOrDiv(ts) == SelectSeq(ts, NamedAndLettered)

ClassifiedByNameAndLetter(self, ts) ==
    /\ self.definitions = DefinitionsOf(DefinitionChildren(LiOrDiv(AfterLema(ts))))
    /\ self.supplementary_info = SentencesOf(SupplementaryChildren(LiOrDiv(AfterLema(ts))))

EntryClassifiesByNameAndLetter ==
    (EntryOnTag /\ Built /\ FirstHeader(ChildTags(RootOf(input.html))) # 0) =>
        /\ LemaIsFirstHeader(Instance, ChildTags(RootOf(input.html)))
        /\ LemaComesFirst(ChildTags(RootOf(input.html))) =>
               ClassifiedByNameAndLetter(Instance, ChildTags(RootOf(input.html)))

(***************************************************************************)
(* Conjugation attachment.                                                 *)
(***************************************************************************)
\* A page on which nothing but the parse of a conjugation can fail: a
\* results container whose articles parse, both related-words sections,
\* and no assertion on the number of direct articles.
ParseableButConjugations(html) ==
    /\ HasTags(html)
    /\ ResultsDiv(html.top) # <<>>
    /\ \A k \in 1..Len(Matched(Head(ResultsDiv(html.top)))) :
           Article_init(Matched(Head(ResultsDiv(html.top)))[k]).ok
    /\ \A prefix \in {"sinonimos", "antonimos"} :
           /\ SectionsWithId(html.top, prefix) # <<>>
           /\ RelatedWords(SectionsWithId(html.top, prefix)) # <<>>
    /\ Len(DirectArticles(Head(ResultsDiv(html.top)))) <= 1

C21_Attached(article_tag, article) ==
    IF ConjugationTags(article_tag) # <<>>
    THEN article.conjugations # <<>> /\ Article_is_verb(article)
    ELSE article.conjugations = <<>>

C21_EachAttached(matched) ==
    /\ Built
    /\ Len(Instance.articles) = Len(matched)
    /\ \A k \in 1..Len(matched) : C21_Attached(matched[k], Instance.articles[k])

(***************************************************************************)
(* C21: for every article element of the results, a descendant whose id    *)
(* starts with "conjugacion" makes the construction of the SearchResult    *)
(* succeed with a Conjugation attached to that Article (is_verb true),     *)
(* whatever the tag of the descendant and with or without a div carrying   *)
(* an id inside it; without such a descendant the Article has no           *)
(* conjugation and the construction succeeds as well.                      *)
(***************************************************************************)
C21_ConjugationAttachment ==
    (InitOf("SearchResult") /\ ParseableButConjugations(input.html)) =>
        C21_EachAttached(Matched(Head(ResultsDiv(input.html.top))))

\* The same on pages whose conjugation elements parse.
ConjugationAttachedWhenItParses ==
    (InitOf("SearchResult") /\ ParseableButConjugations(input.html)
        /\ ParseablePage(input.html)) =>
        C21_EachAttached(Matched(Head(ResultsDiv(input.html.top))))

\* A section with the id and no div in it is refused.
SectionWithoutDiv(matched) ==
    /\ Len(matched) = 1
    /\ ConjugationTags(matched[1]) # <<>>
    /\ Head(ConjugationTags(matched[1])).name = "section"
    /\ FindFirst(Head(ConjugationTags(matched[1])).kids, "div") = <<>>

SectionWithoutDivRefused ==
    (InitOf("SearchResult") /\ ParseableButConjugations(input.html)
        /\ SectionWithoutDiv(Matched(Head(ResultsDiv(input.html.top)))))
        => (output.state = "raised" /\ output.err = "TypeError")

(***************************************************************************)
(* The schema of the coordinate map.                                       *)
(***************************************************************************)
Slots == {coordinate_map[x] : x \in DOMAIN coordinate_map}

Moods == {slot[1] : slot \in Slots}

TensesOf(mood) == {slot[2] : slot \in {t \in Slots : t[1] = mood}}

PersonsOf(mood, tense) == {slot[3] : slot \in {t \in Slots : t[1] = mood /\ t[2] = tense}}

\* The tables whose cells write the tense.
TablesWriting(mood, tense) ==
    {x[1] : x \in {y \in DOMAIN coordinate_map :
                       coordinate_map[y][1] = mood /\ coordinate_map[y][2] = tense}}

\* A tense that shares its table with another one: a simple form and its
\* compound form.
Paired(mood, tense) ==
    \E other \in TensesOf(mood) \ {tense} :
        TablesWriting(mood, other) = TablesWriting(mood, tense)

IndicativeTenses == TensesOf("Indicativo")

SubjunctiveTenses == TensesOf("Subjuntivo")

UnpairedIndicative == {tense \in IndicativeTenses : ~Paired("Indicativo", tense)}

UnpairedSubjunctive == {tense \in SubjunctiveTenses : ~Paired("Subjuntivo", tense)}

Persons == {"yo", "tú / vos", "usted", "él", "nosotros", "vosotros", "ustedes", "ellos"}

EveryPersonalTenseOverPersons ==
    /\ \A tense \in IndicativeTenses : PersonsOf("Indicativo", tense) = Persons
    /\ \A tense \in SubjunctiveTenses : PersonsOf("Subjuntivo", tense) = Persons

\* The slots of the map, with the given number of indicative tense pairs.
SchemaWithPairs(pairs) ==
    /\ Moods = {"Formas no personales", "Indicativo", "Subjuntivo", "Imperativo"}
    /\ TensesOf("Formas no personales") = {"Infinitivo", "Gerundio", "Participio"}
    /\ Cardinality(IndicativeTenses) = 2 * pairs /\ UnpairedIndicative = {}
    /\ Cardinality(SubjunctiveTenses) = 6 /\ Cardinality(UnpairedSubjunctive) = 2
    /\ EveryPersonalTenseOverPersons
    /\ TensesOf("Imperativo") = {"Imperativo"}
    /\ Cardinality(PersonsOf("Imperativo", "Imperativo")) = 4

\* The paradigm holds every mood and tense key of the map.
HoldsEveryKey(self) ==
    \A slot \in Slots :
        IF slot[1] = "Formas no personales" THEN slot \in DOMAIN self.conjugations
        ELSE <<slot[1], slot[2]>> \in self.tenses

NoTable(html) == FindAllNamed(html.top, {"table"}) = <<>>

(***************************************************************************)
(* C22: the target slots of the coordinate map are the 3 non-personal      *)
(* forms, 8 indicative tense pairs (simple and compound) over the 8        *)
(* persons, 6 subjunctive tenses over the 8 persons, 2 of them without a   *)
(* compound pair, and a 4-person imperative; after every successful parse  *)
(* the paradigm holds all these mood and tense keys, also without a table. *)
(***************************************************************************)
C22_SchemaCoverage ==
    (InitOf("Conjugation") /\ Built) => (SchemaWithPairs(8) /\ HoldsEveryKey(Instance))

\* C22 as the code has it: the indicative has 5 tense pairs.
C22_SchemaCoverageFivePairs ==
    (InitOf("Conjugation") /\ Built) => (SchemaWithPairs(5) /\ HoldsEveryKey(Instance))

C22_Witness ==
    /\ InitOf("Conjugation") /\ Built /\ NoTable(input.html)
    /\ <<"Subjuntivo", "Antefuturo">> \in Instance.tenses
    /\ Cardinality(Slots) = 135

(***************************************************************************)
(* Sentence span filtering.                                                *)
(***************************************************************************)
\* A span without data-id outside the allow-list, or a tag the caller
\* ignores.
Filtered(self, tag) ==
    \/ tag.name \in self.ignore_tags
    \/ (tag.name = "span" /\ ~Has(tag.dataid) /\ ClassesOf(tag) \cap {"af", "u"} = {})

Unfiltered(self, children) == SelectSeq(children, LAMBDA t : ~Filtered(self, t))

\* The components the children that are not filtered give, in their order.
ComponentsOfUnfiltered(self, children) ==
    Sentence_children(Sentence_reset(self), Unfiltered(self, children)).self.components

(***************************************************************************)
(* C23: a direct span child of a Sentence without a data-id attribute and  *)
(* outside the allow-list (class af or u) contributes no component, a span *)
(* without a class attribute included; a child whose tag name the caller   *)
(* ignores contributes none either; the other components keep document     *)
(* order.                                                                  *)
(***************************************************************************)
C23_Filtering(root) ==
    (SentenceOf(root) /\ Built) =>
        Instance.components = ComponentsOfUnfiltered(Instance, root.kids)

C23_SpanFiltering == C23_Filtering(RootOf(input.html))

\* The same for spans that carry a class attribute.
ClasslessSpan(tag) == tag.name = "span" /\ ~Has(tag.dataid) /\ ~Has(tag.cls)

SpanFilteringOfClassedSpans ==
    (SentenceOf(RootOf(input.html)) /\ Built
        /\ \A k \in 1..Len(RootOf(input.html).kids) :
               ~ClasslessSpan(RootOf(input.html).kids[k])
                  \/ "span" \in input.blank.ignore_tags)
        => Instance.components = ComponentsOfUnfiltered(Instance, RootOf(input.html).kids)

(***************************************************************************)
(* Definition main sentence.                                               *)
(***************************************************************************)
\* The children of the wrapper the main sentence was parsed from.
WrapperKids(sentence) == sentence.html.top[1].kids

WithoutAbbr(children) == SelectSeq(children, LAMBDA t : t.name # "abbr")

\* The abbr elements put back into the wrapper leave nothing but the text
\* around them.
ReinjectedDropped(sentence) ==
    sentence.components =
        Sentence_children(Sentence_reset(sentence), WithoutAbbr(WrapperKids(sentence)))
            .self.components

NoAbbrComponent(sentence) ==
    \A k \in 1..Len(sentence.components) : sentence.components[k].cls # "Abbr"

C24_MainSentence(self) ==
    /\ self.sentence # <<>>
    /\ ReinjectedDropped(self.sentence[1])
    /\ NoAbbrComponent(self.sentence[1])

(***************************************************************************)
(* C24: the abbr markup Pass B puts back into the wrapper (abbr of class   *)
(* d, g or c) is dropped by the Sentence parse, only the separating        *)
(* whitespace being kept, and the main sentence of a Definition holds no   *)
(* Abbr component, also when a kept span with data-id holds an abbr with   *)
(* a title.                                                                *)
(***************************************************************************)
C24_NoAbbrInMainSentence == (InitOf("Definition") /\ Built) => C24_MainSentence(Instance)

\* The same when no kept span holds an abbr.
SpanHoldsAbbr(children) ==
    \E k \in 1..Len(children) :
        children[k].name = "span" /\ Has(FindFirst(children[k].kids, "abbr"))

NoAbbrInMainSentenceOfPlainSpans ==
    (InitOf("Definition") /\ Built /\ Instance.sentence # <<>>
        /\ ~SpanHoldsAbbr(WrapperKids(Instance.sentence[1])))
        => C24_MainSentence(Instance)

\* A wrapper in which an abbr was put back after its separating space.
ReinjectedMet ==
    /\ InitOf("Definition") /\ Built
    /\ \E k \in 2..Len(WrapperKids(Instance.sentence[1])) :
           /\ WrapperKids(Instance.sentence[1])[k].name = "abbr"
           /\ WrapperKids(Instance.sentence[1])[k - 1].name = "#text"
    /\ C24_MainSentence(Instance)

(***************************************************************************)
(* Failed reassignment.                                                    *)
(***************************************************************************)
\* html, the parsed flag and the parsed fields; the DOM is left out.
FieldsOf(self) == [self EXCEPT !.soup = <<>>]

FailedReassignment == last.op = "set" /\ ~last.ok /\ last.before.parsed

(***************************************************************************)
(* C25: when the assignment of a value to html on a constructed instance   *)
(* raises, html, the parsed flag and every parsed field are afterwards     *)
(* those of the last successful parse.                                     *)
(***************************************************************************)
C25_FailedReassignmentKeepsInstance ==
    FailedReassignment => FieldsOf(obj) = FieldsOf(last.before)

\* What a failed reassignment leaves: the new html, the flag cleared, and
\* the fields as classification left them when it raised.
FailedReassignmentLeavesNewHtml ==
    FailedReassignment => (obj.html = last.value /\ ~obj.parsed)

\* A failed reassignment that leaves a field partly filled.
PartlyFilledMet ==
    /\ FailedReassignment /\ obj.cls = "Abbr"
    /\ obj.abbr # last.before.abbr /\ obj.text = <<>>

(***************************************************************************)
(* The category of a Definition.                                           *)
(***************************************************************************)
DictReturns(self) == \A extended \in BOOLEAN : to_dict(self, extended).state = "returned"

C26_Category(self) ==
    /\ self.category # <<>>
    /\ ~Definition_is_raises(self)
    /\ DictReturns(self)

(***************************************************************************)
(* C26: every constructed Definition has a category, so that is_adjective, *)
(* is_adverb, is_interjection, is_noun, is_pronoun, is_verb and to_dict    *)
(* never fail on it; a fragment with the item container and no abbr        *)
(* element yields no Definition.                                           *)
(***************************************************************************)
C26_CategoryAlways == (InitOf("Definition") /\ Built) => C26_Category(Instance)

\* The same for fragments that hold an abbr element.
CategoryWhenAbbrPresent ==
    (InitOf("Definition") /\ Built /\ Has(FindFirst(input.html.top, "abbr")))
        => C26_Category(Instance)

(***************************************************************************)
(* The page-level synonyms and antonyms.                                   *)
(***************************************************************************)
\* synonyms and antonyms are lists, and to_dict returns in both modes.
C27_Lists(self) ==
    /\ self.synonyms # <<>> /\ self.antonyms # <<>>
    /\ DictReturns(self)

(***************************************************************************)
(* C27: every constructed SearchResult has its synonyms and antonyms       *)
(* defined as lists, a page without a results container included, and      *)
(* to_dict returns on it in compact and in extended mode.                  *)
(***************************************************************************)
C27_SynonymsDefined == (InitOf("SearchResult") /\ Built) => C27_Lists(Instance)

\* The same for pages that have the results container.
SynonymsDefinedWithResults ==
    (InitOf("SearchResult") /\ Built /\ ResultsDiv(input.html.top) # <<>>)
        => C27_Lists(Instance)

\* A page without a results container is constructed.
WithoutResultsMet ==
    InitOf("SearchResult") /\ Built /\ ResultsDiv(input.html.top) = <<>>

\* The page has a section whose id starts with the prefix, with a list.
HasRelatedWords(html, prefix) ==
    /\ SectionsWithId(html.top, prefix) # <<>>
    /\ RelatedWords(SectionsWithId(html.top, prefix)) # <<>>

\* A page on which nothing but the related words can fail, and on which
\* the synonyms or the antonyms have no section, or no list in it.
LacksRelatedWords(html) ==
    /\ HasTags(html)
    /\ ResultsDiv(html.top) # <<>>
    /\ \A k \in 1..Len(Matched(Head(ResultsDiv(html.top)))) :
           ParseableArticle(Matched(Head(ResultsDiv(html.top)))[k])
    /\ Len(DirectArticles(Head(ResultsDiv(html.top)))) <= 1
    /\ \E prefix \in {"sinonimos", "antonimos"} : ~HasRelatedWords(html, prefix)

C28_EmptyList(html, self) ==
    /\ HtmlOfEach(self.articles) = MarkupOfEach(Matched(Head(ResultsDiv(html.top))))
    /\ ~HasRelatedWords(html, "sinonimos") => self.synonyms = <<<<>>>>
    /\ ~HasRelatedWords(html, "antonimos") => self.antonyms = <<<<>>>>

(***************************************************************************)
(* C28: a page that has the results container but no section whose id      *)
(* starts with "sinonimos", or none whose id starts with "antonimos", or   *)
(* such a section without a ul.c-related-words list, still constructs a    *)
(* SearchResult: the token list concerned is empty and the articles are    *)
(* kept.                                                                   *)
(***************************************************************************)
C28_MissingRelatedWords ==
    (InitOf("SearchResult") /\ LacksRelatedWords(input.html)) =>
        (Built /\ C28_EmptyList(input.html, Instance))

\* On such a page the construction raises IndexError.
MissingRelatedWordsRefused ==
    (InitOf("SearchResult") /\ LacksRelatedWords(input.html) /\ output.state # "pending") =>
        (output.state = "raised" /\ output.err = "IndexError")

\* Such a page was given and the call is over.
MissingRelatedWordsMet ==
    InitOf("SearchResult") /\ LacksRelatedWords(input.html) /\ output.state # "pending"

\* The article elements of the page that are matched, in document order.
MatchedOfPage(html) ==
    IF ResultsDiv(html.top) = <<>> THEN <<>> ELSE Matched(Head(ResultsDiv(html.top)))

(***************************************************************************)
(* C29: no article is duplicated.  The first block of the parse appends    *)
(* one Article per direct-child article element and the second block       *)
(* parses them again, yet after construction articles holds each matched   *)
(* article element exactly once, in document order.                        *)
(***************************************************************************)
C29_NoDuplicatedArticles ==
    (InitOf("SearchResult") /\ Built /\ HasTags(input.html)) =>
        HtmlOfEach(Instance.articles) = MarkupOfEach(MatchedOfPage(input.html))

\* A page with a direct-child article, which both blocks parse, is built.
BothBlocksMet ==
    /\ InitOf("SearchResult") /\ Built /\ HasTags(input.html)
    /\ ResultsDiv(input.html.top) # <<>>
    /\ DirectArticles(Head(ResultsDiv(input.html.top))) # <<>>

(***************************************************************************)
(* The layout of the coordinate map.                                       *)
(***************************************************************************)
\* No two coordinates write the same slot.
InjectiveMap ==
    \A x \in DOMAIN coordinate_map : \A y \in DOMAIN coordinate_map :
        coordinate_map[x] = coordinate_map[y] => x = y

PersonalTables == 1..9

PairedTables == {1, 2, 3, 4, 5, 6, 9}

PersonOfRow(r) ==
    CASE r = 1 -> "yo" [] r = 2 -> "tú / vos" [] r = 3 -> "usted" [] r = 4 -> "él"
      [] r = 5 -> "nosotros" [] r = 6 -> "vosotros" [] r = 7 -> "ustedes" [] r = 8 -> "ellos"

SimpleColumn(r) ==
    CASE r \in {1, 5} -> 3 [] r \in {2, 4, 6, 8} -> 2 [] r \in {3, 7} -> 1

\* The coordinates of a personal-tense table the layout gives a form.
LayoutOf(t) ==
    {<<t, r, SimpleColumn(r)>> : r \in 1..8}
    \cup (IF t \in PairedTables THEN {<<t, r, SimpleColumn(r) + 1>> : r \in 1..8} ELSE {})

\* In a personal-tense table the mapped coordinates are those of the
\* layout, row r writes the person of row r, one tense per column offset,
\* and in a paired table the two columns write different tenses.
UniformTable(t) ==
    /\ {x \in DOMAIN coordinate_map : x[1] = t} = LayoutOf(t)
    /\ \A x \in LayoutOf(t) :
           /\ coordinate_map[x][3] = PersonOfRow(x[2])
           /\ coordinate_map[x][1] = coordinate_map[<<t, 1, 3>>][1]
           /\ coordinate_map[x][2] =
                  IF x[3] = SimpleColumn(x[2]) THEN coordinate_map[<<t, 1, 3>>][2]
                  ELSE coordinate_map[<<t, 1, 4>>][2]
    /\ t \in PairedTables => coordinate_map[<<t, 1, 4>>][2] # coordinate_map[<<t, 1, 3>>][2]

UniformMap == \A t \in PersonalTables : UniformTable(t)

\* Every slot the cells reach holds the text of the one cell that maps to
\* it, whatever the order of the cells.
C30_OneCellPerSlot(tables, conjugations) ==
    \A slot \in DOMAIN conjugations \ DOMAIN base_conjugations :
        \E x \in Mapped(tables) :
            /\ coordinate_map[x] = slot
            /\ conjugations[slot] = Strip(TextOf(CellAt(tables, x)))
            /\ \A y \in Coordinates(tables) \ {x} :
                   conjugations[slot] # Strip(TextOf(CellAt(tables, y)))

(***************************************************************************)
(* C30: the coordinate map is injective and uniform.  No two (table, row,  *)
(* column) coordinates write the same (mood, tense, person) slot, so the   *)
(* paradigm does not depend on the order the cells are visited in: a slot  *)
(* holds the text of the one cell mapped to it.  In every personal-tense   *)
(* table (1 to 9) row r maps to the same person (1 yo, 2 tú / vos, 3       *)
(* usted, 4 él, 5 nosotros, 6 vosotros, 7 ustedes, 8 ellos), the simple    *)
(* form is at column 3 for rows 1 and 5, 2 for rows 2, 4, 6 and 8, 1 for   *)
(* rows 3 and 7, and in the paired tables (1 to 6 and 9) the compound form *)
(* is at the next column.                                                  *)
(***************************************************************************)
C30_InjectiveUniformMap ==
    (InitOf("Conjugation") /\ Built /\ AcceptedSection(input.html)) =>
        /\ InjectiveMap /\ UniformMap
        /\ C30_OneCellPerSlot(TablesOf(input.html), Instance.conjugations)

\* A row of five cells of a paired table: the simple form, the compound
\* form at the next column and a cell past them.
C30_Witness ==
    /\ InitOf("Conjugation") /\ Built /\ AcceptedSection(input.html)
    /\ {<<9, 2, 2>>, <<9, 2, 3>>, <<9, 2, 4>>} \subseteq Coordinates(TablesOf(input.html))
    /\ Instance.conjugations[<<"Subjuntivo", "Futuro", "tú / vos">>] = <<"hablas">>
    /\ Instance.conjugations[<<"Subjuntivo", "Antefuturo", "tú / vos">>] = <<"hablo">>

====
